---- MODULE Spec2Model ----
(***************************************************************************)
(* Model of the consumer Component aggregate of                            *)
(* src/consumer/component/consumer-component.js: build(), buildIfNeeded(), *)
(* runSpecs(), stripOriginallySharedDir(), setOriginallySharedDir() and    *)
(* copyDependenciesFromModel().                                            *)
(*                                                                         *)
(* Paths are sequences of one-character strings, so that the string        *)
(* operations of the source (common prefix, lastIndexOf, substring,        *)
(* String.replace) are computed character by character.                    *)
(* Asynchronous methods advance one await at a time (pc); synchronous      *)
(* methods are one action.                                                 *)
(***************************************************************************)
EXTENDS Integers, Sequences, FiniteSets, TLC

VARIABLES
  comp,       \* the Component objects: comp["this"], and comp["iso"], the copy an isolated environment holds
  fromModel,  \* this.componentFromModel: [present, deps]
  cwd,        \* the process working directory
  env,        \* the IsolatedEnvironment the operation in flight created
  op,         \* the operation in flight and its arguments
  pc,         \* position of the operation in flight
  caught,     \* the error a try block of the operation handed to its catch block
  built,      \* the artifacts the compiler returned to buildIfNeeded
  outcome,    \* what the operation delivered to its caller
  log,        \* calls the operation made on its collaborators, in order
  tested,     \* the test files the tester was run on, and what it did on each
  pre,        \* comp as it was when the operation was called
  calls,      \* number of operations called so far
  par,        \* the operations in flight at the same time in one process, each on its own component
  last,       \* what the last synchronous or static call was given and what it handed back
  heap,       \* Component instances as objects: their properties hold references to the cells
  ws          \* the workspace (consumer): its index (bit.map) and the component's files on disk

vars ==
  <<comp, fromModel, cwd, env, op, pc, caught, built, outcome, log, tested, pre, calls, par,
    last, heap, ws>>

----------------------------------------------------------------------------
(* Bounds *)

MaxCalls == 2
MaxIds == 2
MaxDepth == 3
MaxProcs == 2

----------------------------------------------------------------------------
(* Strings as sequences of characters *)

SEP == "/"

P_x == <<"x">>
P_a_y == <<"a", "/", "y">>
P_a_b_x == <<"a", "/", "b", "/", "x">>
P_a_b_y == <<"a", "/", "b", "/", "y">>
P_a_b_a_b_y == <<"a", "/", "b", "/", "a", "/", "b", "/", "y">>

Undefined == <<>>
Defined(v) == <<v>>
IsDefined(o) == o # <<>>
Val(o) == o[1]

includes(str, ch) == \E i \in 1..Len(str) : str[i] = ch

lastIndexOf(str, ch) ==
  IF includes(str, ch)
    THEN CHOOSE i \in 1..Len(str) : str[i] = ch /\ \A j \in (i + 1)..Len(str) : str[j] # ch
    ELSE 0

Matches(str, part, i) == SubSeq(str, i, i + Len(part) - 1) = part

indexOf(str, part) ==
  IF \E i \in 1..(Len(str) - Len(part) + 1) : Matches(str, part, i)
    THEN CHOOSE i \in 1..(Len(str) - Len(part) + 1) :
           Matches(str, part, i) /\ \A j \in 1..(i - 1) : ~Matches(str, part, j)
    ELSE 0

\* String.prototype.replace(part, ''): only the first occurrence, wherever it is
replace(str, part) ==
  LET i == indexOf(str, part)
  IN IF i = 0 THEN str ELSE SubSeq(str, 1, i - 1) \o SubSeq(str, i + Len(part), Len(str))

RECURSIVE CommonLen(_, _, _)
CommonLen(p, q, i) ==
  IF i < Len(p) /\ i < Len(q) /\ p[i + 1] = q[i + 1] THEN CommonLen(p, q, i + 1) ELSE i

RECURSIVE sharedStartOfArray(_)
sharedStartOfArray(arr) ==
  IF Len(arr) = 1
    THEN arr[1]
    ELSE LET rest == sharedStartOfArray(Tail(arr))
         IN SubSeq(arr[1], 1, CommonLen(arr[1], rest, 0))

RECURSIVE Flatten(_)
Flatten(ss) == IF ss = <<>> THEN <<>> ELSE Head(ss) \o Flatten(Tail(ss))

Map1(f(_), s) == [i \in 1..Len(s) |-> f(s[i])]

RECURSIVE SelectTest(_)
SelectTest(s) ==
  IF s = <<>> THEN <<>>
  ELSE IF Head(s).test THEN <<Head(s)>> \o SelectTest(Tail(s)) ELSE SelectTest(Tail(s))

----------------------------------------------------------------------------
(* The Component *)

Classes == <<"dependencies", "devDependencies", "compilerDependencies", "testerDependencies">>
ClassSet == {Classes[i] : i \in 1..Len(Classes)}

NoDeps == [c \in ClassSet |-> <<>>]

File(rel, t) == [relative |-> rel, test |-> t]

NoCompiler == [present |-> FALSE, action |-> FALSE, oldAction |-> FALSE, loaded |-> FALSE]
NoTester == [present |-> FALSE, action |-> FALSE, loaded |-> FALSE]
NoResults == [set |-> FALSE, list |-> <<>>]

Compilers ==
  {NoCompiler} \cup
  [present : {TRUE}, action : BOOLEAN, oldAction : BOOLEAN, loaded : BOOLEAN]

\* a component as it is loaded: its flattened lists hold the ids of its direct dependencies
NewComponent(compiler, tester, files, dists, mainFile, deps) ==
  [ compiler |-> compiler,
    tester |-> tester,
    files |-> files,
    dists |-> dists,
    mainFile |-> mainFile,
    deps |-> deps,
    flattened |-> [class \in ClassSet |-> [i \in 1..Len(deps[class]) |-> deps[class][i].id]],
    customResolvedPaths |-> <<>>,
    originallySharedDir |-> Undefined,
    wasOriginallySharedDirStripped |-> FALSE,
    specsResults |-> NoResults,
    isolatedEnvironment |-> FALSE,
    writtenPath |-> "none",
    dependenciesSavedAsComponents |-> TRUE,
    loadedFromFileSystem |-> FALSE ]

NoComponent == NewComponent(NoCompiler, NoTester, <<>>, <<>>, <<>>, NoDeps)

\* Dependencies.getSourcesPaths() of one class
getSourcesPaths(c, class) == Flatten(Map1(LAMBDA d : d.paths, c.deps[class]))

allPaths(c) ==
  Map1(LAMBDA f : f.relative, c.files)
    \o getSourcesPaths(c, "dependencies")
    \o getSourcesPaths(c, "devDependencies")
    \o getSourcesPaths(c, "compilerDependencies")
    \o getSourcesPaths(c, "testerDependencies")

\* setOriginallySharedDir() cutting the shared start at its first separator
setOriginallySharedDirFirstSep(c) ==
  IF IsDefined(c.originallySharedDir) THEN c.originallySharedDir
  ELSE LET sharedStart == sharedStartOfArray(allPaths(c))
       IN IF sharedStart = <<>> \/ ~includes(sharedStart, SEP) THEN Undefined
          ELSE Defined(SubSeq(sharedStart, 1, indexOf(sharedStart, <<SEP>>) - 1))

\* setOriginallySharedDir(): the value of this.originallySharedDir afterwards
setOriginallySharedDir(c) ==
  IF IsDefined(c.originallySharedDir) THEN c.originallySharedDir
  ELSE LET sharedStart == sharedStartOfArray(allPaths(c))
       IN IF sharedStart = <<>> \/ ~includes(sharedStart, SEP) THEN Undefined
          ELSE Defined(SubSeq(sharedStart, 1, lastIndexOf(sharedStart, SEP) - 1))

\* pathWithoutSharedDir leaving the separator behind
pathWithoutSharedDirKeepSep(pathStr, sharedDir) ==
  IF ~IsDefined(sharedDir) \/ Val(sharedDir) = <<>> THEN pathStr
  ELSE replace(pathStr, Val(sharedDir))

\* the closure pathWithoutSharedDir of stripOriginallySharedDir
pathWithoutSharedDir(pathStr, sharedDir) ==
  IF ~IsDefined(sharedDir) \/ Val(sharedDir) = <<>> THEN pathStr
  ELSE replace(pathStr, Val(sharedDir) \o <<SEP>>)

\* Dists.stripOriginallySharedDir and Dependencies.stripOriginallySharedDir
StripRelative(s, dir) == [i \in 1..Len(s) |-> [s[i] EXCEPT !.relative = pathWithoutSharedDir(@, dir)]]
StripSources(s, dir) ==
  [i \in 1..Len(s) |->
    [s[i] EXCEPT !.paths = [j \in 1..Len(@) |-> pathWithoutSharedDir(@[j], dir)]]]

\* stripOriginallySharedDir() without its _wasOriginallySharedDirStripped guard
stripOriginallySharedDirUnguarded(c) ==
  LET dir == setOriginallySharedDir(c)
  IN [c EXCEPT
       !.originallySharedDir = dir,
       !.files = StripRelative(@, dir),
       !.dists = StripRelative(@, dir),
       !.mainFile = pathWithoutSharedDir(@, dir),
       !.deps = [class \in ClassSet |-> StripSources(@[class], dir)],
       !.customResolvedPaths = [i \in 1..Len(@) |-> pathWithoutSharedDir(@[i], dir)],
       !.wasOriginallySharedDirStripped = TRUE]

\* stripOriginallySharedDir(bitMap): the component afterwards
stripOriginallySharedDir(c) ==
  IF c.wasOriginallySharedDirStripped THEN c
  ELSE LET dir == setOriginallySharedDir(c)
       IN [c EXCEPT
            !.originallySharedDir = dir,
            !.files = StripRelative(@, dir),
            !.dists = StripRelative(@, dir),
            !.mainFile = pathWithoutSharedDir(@, dir),
            !.deps = [class \in ClassSet |-> StripSources(@[class], dir)],
            !.customResolvedPaths = [i \in 1..Len(@) |-> pathWithoutSharedDir(@[i], dir)],
            !.wasOriginallySharedDirStripped = TRUE]

\* copyFilesIntoDists() adding the copies to the dists already there
copyFilesIntoDistsAppended(c) ==
  [c EXCEPT !.dists = @ \o [i \in 1..Len(c.files) |-> File(c.files[i].relative, FALSE)]]

\* copyFilesIntoDists(): one Dist per source file, made from the file's base, path and
\* contents only (a Dist made this way has no test flag)
copyFilesIntoDists(c) ==
  [c EXCEPT !.dists = [i \in 1..Len(c.files) |-> File(c.files[i].relative, FALSE)]]

----------------------------------------------------------------------------
(* Operations in flight *)

Origins == {"NONE", "AUTHORED", "IMPORTED", "NESTED"}

NoOp ==
  [ name |-> "none", noCache |-> FALSE, consumer |-> FALSE, modified |-> FALSE,
    origin |-> "NONE", distsInside |-> TRUE, keep |-> FALSE, save |-> FALSE,
    rejectOnFailure |-> FALSE, verbose |-> FALSE, isolated |-> FALSE, ids |-> <<>> ]

NoLast == [op |-> "none"]
NoHeap == [cells |-> <<>>, instances |-> <<>>]

\* the index record of a component (its ComponentMap) before anything is tracked
NoRecord ==
  [ files |-> <<>>, mainFile |-> <<>>, origin |-> "AUTHORED", detachedCompiler |-> Undefined,
    detachedTester |-> Undefined, configDir |-> Undefined, rootDir |-> "",
    originallySharedDir |-> Undefined, version |-> "0.0.1" ]

\* a workspace whose index tracks nothing and whose component directory is empty
NoWs ==
  [ index |-> {}, tracked |-> FALSE, record |-> NoRecord, disk |-> {}, dirExists |-> TRUE,
    hasChanged |-> FALSE ]
NoEnv == [exists |-> FALSE, created |-> FALSE, destroyCalls |-> 0, destroyFailed |-> FALSE]
NoOutcome == [status |-> "none", err |-> "none", ret |-> "none"]

Ok(ret) == [status |-> "ok", err |-> "none", ret |-> ret]
Err(e) == [status |-> "err", err |-> e, ret |-> "none"]

\* what a call sets up, whatever the operation
StartOp(o) ==
  /\ pc = "idle"
  /\ calls < MaxCalls
  /\ calls' = calls + 1
  /\ op' = o
  /\ pre' = comp
  /\ UNCHANGED <<fromModel, cwd, env, caught, built, log, tested, par, last, heap, ws>>

\* a step of the operation in flight leaves these alone
StepFrame == UNCHANGED <<fromModel, op, pre, calls, par, last, heap, ws>>
BuildFrame == StepFrame /\ UNCHANGED tested

Goto(p) == pc' = p /\ UNCHANGED <<outcome, caught>>
Throw(p, e) == pc' = p /\ caught' = e /\ UNCHANGED outcome
Deliver(o) == pc' = "done" /\ outcome' = o /\ UNCHANGED caught

\* runSpecs takes its isolated branch unless (!isolated && consumer)
InRunSpecsIso == op.name = "runSpecs" /\ ~(~op.isolated /\ op.consumer)

\* the component build() runs on, and the arguments build() got
tgt == IF InRunSpecsIso THEN "iso" ELSE "this"
bConsumer == IF op.name = "build" THEN op.consumer ELSE op.name = "runSpecs" /\ ~InRunSpecsIso
bNoCache == op.name = "build" /\ op.noCache
bKeep == op.name = "build" /\ op.keep
bSave == op.name = "build" /\ op.save

\* build() handing over to run() without the dist-write of line 921
BuildReturnsStraightToRun(ok, e, ret) ==
  IF op.name = "build" THEN Deliver(IF ok THEN Ok(ret) ELSE Err(e))
  ELSE IF InRunSpecsIso THEN (IF ok THEN Goto("r_isoWrite") ELSE Throw("r_catch", e))
  ELSE (IF ok THEN Goto("r_run") ELSE Deliver(Err(e)))

\* build() settles: to the caller, or back into runSpecs which awaited it
BuildReturns(ok, e, ret) ==
  IF op.name = "build" THEN Deliver(IF ok THEN Ok(ret) ELSE Err(e))
  ELSE IF InRunSpecsIso THEN (IF ok THEN Goto("r_isoWrite") ELSE Throw("r_catch", e))
  ELSE (IF ok THEN Goto("r_writeDists") ELSE Deliver(Err(e)))

----------------------------------------------------------------------------
(* build() and buildIfNeeded() *)

CallBuild ==
  /\ \E noCache, consumer, modified, distsInside, keep, save \in BOOLEAN, origin \in Origins :
       \* arguments the code never reads in the case at hand are fixed
       /\ ~consumer => (~modified /\ origin = "NONE")
       /\ consumer => ~keep
       /\ (~consumer \/ comp["this"].compiler.present) => distsInside
       /\ StartOp([NoOp EXCEPT !.name = "build", !.noCache = noCache, !.consumer = consumer,
                               !.modified = modified, !.origin = origin,
                               !.distsInside = distsInside, !.keep = keep, !.save = save])
  /\ pc' = "build"
  /\ UNCHANGED <<comp, outcome>>

\* build(), lines 976-986: no compiler
BuildStart ==
  /\ pc = "build"
  /\ LET c == comp[tgt]
     IN IF ~c.compiler.present
          THEN IF ~bConsumer \/ op.distsInside
                 THEN BuildReturns(TRUE, "none", "null") /\ UNCHANGED comp
                 ELSE /\ comp' = [comp EXCEPT ![tgt] = copyFilesIntoDists(c)]
                      /\ BuildReturns(TRUE, "none", "dists")
          ELSE Goto("b_decide") /\ UNCHANGED comp
  /\ UNCHANGED <<cwd, env, built, log>>
  /\ BuildFrame

\* isNeededToReBuild() that never asks the workspace
isNeededToReBuildNoCacheOnly == bNoCache

isNeededToReBuild == bNoCache \/ (bConsumer /\ op.modified)

\* build() reusing the dists without lines 1007-1009
BuildDecideNoStrip ==
  /\ pc = "b_decide"
  /\ LET c == comp[tgt]
     IN IF ~isNeededToReBuild /\ c.dists # <<>>
          THEN /\ UNCHANGED comp
               /\ BuildReturns(TRUE, "none", "dists")
          ELSE /\ Goto(IF c.compiler.loaded THEN "b_ifneeded" ELSE "b_install")
               /\ UNCHANGED comp
  /\ UNCHANGED <<cwd, env, built, log>>
  /\ BuildFrame

\* build(), lines 990-1014: await isNeededToReBuild(), then reuse the dists or go on
BuildDecide ==
  /\ pc = "b_decide"
  /\ LET c == comp[tgt]
     IN IF ~isNeededToReBuild /\ c.dists # <<>>
          THEN /\ comp' = [comp EXCEPT ![tgt] =
                            IF bConsumer /\ op.origin = "IMPORTED"
                              THEN stripOriginallySharedDir(c) ELSE c]
               /\ BuildReturns(TRUE, "none", "dists")
          ELSE /\ Goto(IF c.compiler.loaded THEN "b_ifneeded" ELSE "b_install")
               /\ UNCHANGED comp
  /\ UNCHANGED <<cwd, env, built, log>>
  /\ BuildFrame

\* build() going on to buildIfNeeded() whatever compiler.install() did
BuildInstallThenGoOn ==
  /\ pc = "b_install"
  /\ log' = Append(log, "compiler.install")
  /\ \E ok \in BOOLEAN :
       /\ comp' = IF ok THEN [comp EXCEPT ![tgt].compiler.loaded = TRUE] ELSE comp
       /\ Goto("b_ifneeded")
  /\ UNCHANGED <<cwd, env, built>>
  /\ BuildFrame

\* build(), lines 1016-1022: await this.compiler.install(...)
BuildInstall ==
  /\ pc = "b_install"
  /\ log' = Append(log, "compiler.install")
  /\ \E ok \in BOOLEAN :
       IF ok
         THEN /\ comp' = [comp EXCEPT ![tgt].compiler.loaded = TRUE]
              /\ Goto("b_ifneeded")
         ELSE /\ BuildReturns(FALSE, "InstallError", "none")
              /\ UNCHANGED comp
  /\ UNCHANGED <<cwd, env, built>>
  /\ BuildFrame

\* buildIfNeeded(), lines 508-515: its synchronous part
BuildIfNeeded ==
  /\ pc = "b_ifneeded"
  /\ LET c == comp[tgt]
     IN IF ~c.compiler.action /\ ~c.compiler.oldAction
          THEN BuildReturns(FALSE, "InvalidCompilerInterface", "none") /\ UNCHANGED env
          ELSE IF bConsumer \/ c.isolatedEnvironment
                 THEN Goto("b_run") /\ UNCHANGED env
                 ELSE Goto("e_create") /\ env' = [NoEnv EXCEPT !.exists = TRUE]
  /\ UNCHANGED <<comp, cwd, built, log>>
  /\ BuildFrame

\* buildIfNeeded(), line 517: await isolatedEnvironment.create()
EnvCreate ==
  /\ pc = "e_create"
  /\ log' = Append(log, "env.create")
  /\ \E ok \in BOOLEAN :
       IF ok
         THEN Goto("e_isolate") /\ env' = [env EXCEPT !.created = TRUE]
         ELSE Throw("e_catch", "CreateError") /\ UNCHANGED env
  /\ UNCHANGED <<comp, cwd, built>>
  /\ BuildFrame

\* buildIfNeeded(), line 523: await isolatedEnvironment.isolateComponent(...)
EnvIsolate ==
  /\ pc = "e_isolate"
  /\ log' = Append(log, "env.isolateComponent")
  /\ \E ok \in BOOLEAN :
       IF ok THEN Goto("b_run") ELSE Throw("e_catch", "IsolateError")
  /\ UNCHANGED <<comp, cwd, env, built>>
  /\ BuildFrame

\* runBuild leaving the working directory where it was
componentRootUnchanged == cwd

\* the directory runBuild is given: lines 512, 513, 525
componentRoot ==
  IF bConsumer THEN "workspace"
  ELSE IF comp[tgt].isolatedEnvironment THEN comp[tgt].writtenPath
  ELSE "isolated"

\* the artifacts a compiler may hand back: none, or one per source file, each with or
\* without textual contents
Artifacts(c) ==
  UNION { [1..n -> BOOLEAN] : n \in {0, Len(c.files)} }

ArtifactList(c, has) ==
  [i \in 1..Len(has) |->
    [relative |-> c.files[i].relative, test |-> c.files[i].test, contents |-> has[i]]]

\* buildIfNeeded(), lines 476-506: runBuild
BuildRun ==
  /\ pc = "b_run"
  /\ cwd' = componentRoot
  /\ LET c == comp[tgt]
         inEnv == env.exists
         called == log \o <<"process.chdir",
                             IF c.compiler.action THEN "compiler.action" ELSE "compiler.oldAction">>
     IN /\ \/ \E has \in Artifacts(c) :
                /\ built' = Defined(ArtifactList(c, has))
                /\ log' = called
                /\ Goto(IF inEnv /\ ~bKeep THEN "e_destroy" ELSE "b_after")
           \/ \E how \in {"throws", "invalid response"} :
                /\ how = "invalid response" => c.compiler.action
                /\ log' = IF how = "throws" THEN Append(called, "compiler throws") ELSE called
                /\ UNCHANGED built
                /\ IF inEnv THEN Throw("e_catch", "ExternalBuildError")
                   ELSE BuildReturns(FALSE, "ExternalBuildError", "none")
  /\ UNCHANGED <<comp, env>>
  /\ BuildFrame

\* buildIfNeeded(), line 526: if (!keep) await isolatedEnvironment.destroy()
EnvDestroy ==
  /\ pc = "e_destroy"
  /\ log' = Append(log, "env.destroy")
  /\ \E ok \in BOOLEAN :
       /\ env' = [env EXCEPT !.destroyCalls = @ + 1, !.destroyFailed = @ \/ ~ok]
       /\ IF ok THEN Goto("b_after") ELSE Throw("e_catch", "DestroyError")
  /\ UNCHANGED <<comp, cwd, built>>
  /\ BuildFrame

\* buildIfNeeded(), lines 528-531: the catch block
EnvCatch ==
  /\ pc = "e_catch"
  /\ log' = Append(log, "env.destroy")
  /\ \E ok \in BOOLEAN :
       /\ env' = [env EXCEPT !.destroyCalls = @ + 1, !.destroyFailed = @ \/ ~ok]
       /\ BuildReturns(FALSE, IF ok THEN caught ELSE "DestroyErrorInCatch", "none")
  /\ UNCHANGED <<comp, cwd, built>>
  /\ BuildFrame

\* build() without the check of lines 1033-1037
BuildAfterUnvalidated ==
  /\ pc = "b_after"
  /\ LET builtFiles == Val(built)
     IN /\ comp' = [comp EXCEPT ![tgt].dists =
                     [i \in 1..Len(builtFiles) |->
                       File(builtFiles[i].relative, builtFiles[i].test)]]
        /\ IF bSave THEN Goto("b_save") ELSE BuildReturns(TRUE, "none", "dists")
  /\ UNCHANGED <<cwd, env, built, log>>
  /\ BuildFrame

\* build(), lines 1033-1043: validate the artifacts, setDists
BuildAfter ==
  /\ pc = "b_after"
  /\ LET builtFiles == Val(built)
     IN IF \E i \in 1..Len(builtFiles) : ~builtFiles[i].contents
          THEN BuildReturns(FALSE, "GeneralError", "none") /\ UNCHANGED comp
          ELSE /\ comp' = [comp EXCEPT ![tgt].dists =
                            [i \in 1..Len(builtFiles) |->
                              File(builtFiles[i].relative, builtFiles[i].test)]]
               /\ IF bSave THEN Goto("b_save") ELSE BuildReturns(TRUE, "none", "dists")
  /\ UNCHANGED <<cwd, env, built, log>>
  /\ BuildFrame

\* build(), line 1041: await scope.sources.updateDist(...)
BuildSave ==
  /\ pc = "b_save"
  /\ log' = Append(log, "scope.sources.updateDist")
  /\ \E ok \in BOOLEAN :
       BuildReturns(ok, "SaveError", "dists")
  /\ UNCHANGED <<comp, cwd, env, built>>
  /\ BuildFrame

----------------------------------------------------------------------------
(* runSpecs() *)

Testers == {NoTester} \cup [present : {TRUE}, action : BOOLEAN, loaded : BOOLEAN]

\* a raw result whose synthetic failure drops the thrown error
RawResultDroppingError(file, how) ==
  [ specPath |-> file.relative,
    pass |-> how = "pass",
    failures |-> IF how = "fail" THEN <<"assertion failed">> ELSE <<>> ]

\* lines 864-887: one raw result of a tester, as oneFileSpecResult hands it back
RawResult(file, how) ==
  [ specPath |-> file.relative,
    pass |-> how = "pass",
    failures |-> IF how = "pass" THEN <<>>
                 ELSE IF how = "throw" THEN <<"thrown message">>
                 ELSE <<"assertion failed">> ]

\* SpecsResults.createFromRaw
createFromRaw(raw) == [specPath |-> raw.specPath, pass |-> raw.pass, failures |-> raw.failures]

CallRunSpecs ==
  /\ calls = 0
  /\ \E rejectOnFailure, consumer, save, verbose, isolated, keep, modified, distsInside \in BOOLEAN :
       \* arguments the code never reads in the case at hand are fixed
       /\ verbose => rejectOnFailure
       /\ (consumer /\ ~isolated) => ~keep
       /\ ~(consumer /\ ~isolated) => ~modified
       /\ (~(consumer /\ ~isolated) \/ comp["this"].compiler.present) => distsInside
       /\ StartOp([NoOp EXCEPT !.name = "runSpecs", !.rejectOnFailure = rejectOnFailure,
                               !.consumer = consumer, !.save = save, !.verbose = verbose,
                               !.isolated = isolated, !.keep = keep, !.modified = modified,
                               !.origin = IF consumer THEN "AUTHORED" ELSE "NONE",
                               !.distsInside = distsInside])
  /\ pc' = "runSpecs"
  /\ UNCHANGED <<comp, outcome>>

\* runSpecs() that short-circuits only when there is no tester
RunSpecsStartTesterOnly ==
  /\ pc = "runSpecs"
  /\ LET c == comp["this"]
     IN IF ~c.tester.present
          THEN Deliver(Ok("null"))
          ELSE Goto(IF c.tester.loaded THEN "r_dispatch" ELSE "r_install")
  /\ UNCHANGED <<comp, cwd, env, built, log, tested>>
  /\ StepFrame

\* runSpecs(), lines 805-815: the short circuit
RunSpecsStart ==
  /\ pc = "runSpecs"
  /\ LET c == comp["this"]
         testFiles == SelectTest(c.files)
     IN IF ~c.tester.present \/ testFiles = <<>>
          THEN Deliver(Ok("null"))
          ELSE Goto(IF c.tester.loaded THEN "r_dispatch" ELSE "r_install")
  /\ UNCHANGED <<comp, cwd, env, built, log, tested>>
  /\ StepFrame

\* runSpecs(), line 813: await tester.install(...)
TesterInstall ==
  /\ pc = "r_install"
  /\ log' = Append(log, "tester.install")
  /\ \E ok \in BOOLEAN :
       IF ok
         THEN /\ comp' = [comp EXCEPT !["this"].tester.loaded = TRUE]
              /\ Goto("r_dispatch")
         ELSE /\ Deliver(Err("InstallError"))
              /\ UNCHANGED comp
  /\ UNCHANGED <<cwd, env, built, tested>>
  /\ StepFrame

\* runSpecs(), lines 918-925: workspace mode builds first, otherwise a new environment
RunSpecsDispatch ==
  /\ pc = "r_dispatch"
  /\ IF InRunSpecsIso
       THEN Goto("r_create") /\ env' = [NoEnv EXCEPT !.exists = TRUE]
       ELSE Goto("build") /\ UNCHANGED env
  /\ UNCHANGED <<comp, cwd, built, log, tested>>
  /\ StepFrame

\* runSpecs(), line 921: await this.dists.writeDists(this, consumer)
RunSpecsWriteDists ==
  /\ pc = "r_writeDists"
  /\ log' = Append(log, "dists.writeDists")
  /\ \E ok \in BOOLEAN :
       IF ok THEN Goto("r_run") ELSE Deliver(Err("WriteDistsError"))
  /\ UNCHANGED <<comp, cwd, env, built, tested>>
  /\ StepFrame

\* runSpecs(), line 928: await isolatedEnvironment.create()
TestEnvCreate ==
  /\ pc = "r_create"
  /\ log' = Append(log, "env.create")
  /\ \E ok \in BOOLEAN :
       IF ok
         THEN Goto("r_isolate") /\ env' = [env EXCEPT !.created = TRUE]
         ELSE Throw("r_catch", "CreateError") /\ UNCHANGED env
  /\ UNCHANGED <<comp, cwd, built, tested>>
  /\ StepFrame

\* runSpecs(), lines 937-944: isolateComponent hands back the scope's copy of the
\* component, written into the environment; build() is then called on that copy
TestEnvIsolate ==
  /\ pc = "r_isolate"
  /\ log' = Append(log, "env.isolateComponent")
  /\ \E ok \in BOOLEAN :
       IF ok
         THEN /\ comp' = [comp EXCEPT !["iso"] =
                           [comp["this"] EXCEPT !.isolatedEnvironment = TRUE,
                                                !.writtenPath = "isolated",
                                                !.specsResults = NoResults]]
              /\ Goto("build")
         ELSE /\ Throw("r_catch", "IsolateError")
              /\ UNCHANGED comp
  /\ UNCHANGED <<cwd, env, built, tested>>
  /\ StepFrame

\* runSpecs(), lines 945-948: write the dists of the isolated copy
RunSpecsIsoWrite ==
  /\ pc = "r_isoWrite"
  /\ IF comp["iso"].dists = <<>>
       THEN Goto("r_run") /\ UNCHANGED log
       ELSE /\ log' = Append(log, "dist.write")
            /\ \E ok \in BOOLEAN :
                 IF ok THEN Goto("r_run") ELSE Throw("r_catch", "WriteDistsError")
  /\ UNCHANGED <<comp, cwd, env, built, tested>>
  /\ StepFrame

\* the closure run() settles: to the caller in workspace mode, inside the try block of
\* runSpecs in the isolated branch
RunReturns(ok, e) ==
  IF InRunSpecsIso
    THEN IF ok THEN (IF op.keep THEN Deliver(Ok("specsResults")) ELSE Goto("r_destroy"))
         ELSE Throw("r_catch", e)
    ELSE Deliver(IF ok THEN Ok("specsResults") ELSE Err(e))

\* lines 827-829: the files the tester is run on
testFilesList(component) ==
  IF component.dists # <<>> THEN SelectTest(component.dists) ELSE SelectTest(component.files)

\* lines 893-915: what run() does with the raw results
AfterTests(raws) ==
  LET results == [i \in 1..Len(raws) |-> createFromRaw(raws[i])]
  IN /\ comp' = [comp EXCEPT !["this"].specsResults = [set |-> TRUE, list |-> results]]
     /\ IF op.rejectOnFailure /\ ~(\A i \in 1..Len(results) : results[i].pass)
          THEN RunReturns(FALSE, IF op.verbose THEN "ComponentSpecsFailed(report)"
                                 ELSE "ComponentSpecsFailed")
          ELSE IF op.save THEN Goto("r_save") ELSE RunReturns(TRUE, "none")

\* runSpecs(), lines 819-916: the closure run()
RunSpecsRun ==
  /\ pc = "r_run"
  /\ cwd' = IF InRunSpecsIso THEN cwd ELSE "workspace"
  /\ LET list == testFilesList(comp[tgt])
         chdir == IF InRunSpecsIso THEN <<>> ELSE <<"process.chdir">>
     IN IF comp["this"].tester.action
          THEN /\ log' = log \o chdir \o <<"tester.action">>
               /\ \/ \E outs \in [1..Len(list) -> {"pass", "fail"}] :
                       /\ tested' = Defined([list |-> list, outs |-> outs])
                       /\ AfterTests([i \in 1..Len(list) |-> RawResult(list[i], outs[i])])
                  \/ /\ tested' = Defined([list |-> list, outs |-> <<"throw">>])
                     /\ RunReturns(FALSE, "ExternalTestError")
                     /\ UNCHANGED comp
          ELSE /\ log' = log \o chdir \o [i \in 1..Len(list) |-> "tester.oldAction"]
               /\ \E outs \in [1..Len(list) -> {"pass", "fail", "throw"}] :
                    /\ tested' = Defined([list |-> list, outs |-> outs])
                    /\ AfterTests([i \in 1..Len(list) |-> RawResult(list[i], outs[i])])
  /\ UNCHANGED <<env, built>>
  /\ StepFrame

\* runSpecs(), lines 908-913: await scope.sources.modifySpecsResults(...)
RunSpecsSave ==
  /\ pc = "r_save"
  /\ log' = Append(log, "scope.sources.modifySpecsResults")
  /\ \E ok \in BOOLEAN : RunReturns(ok, "SaveError")
  /\ UNCHANGED <<comp, cwd, env, built, tested>>
  /\ StepFrame

\* runSpecs(), line 951: if (!keep) await isolatedEnvironment.destroy()
TestEnvDestroy ==
  /\ pc = "r_destroy"
  /\ log' = Append(log, "env.destroy")
  /\ \E ok \in BOOLEAN :
       /\ env' = [env EXCEPT !.destroyCalls = @ + 1, !.destroyFailed = @ \/ ~ok]
       /\ IF ok THEN Deliver(Ok("specsResults")) ELSE Throw("r_catch", "DestroyError")
  /\ UNCHANGED <<comp, cwd, built, tested>>
  /\ StepFrame

\* runSpecs(), lines 953-956: the catch block
TestEnvCatch ==
  /\ pc = "r_catch"
  /\ log' = Append(log, "env.destroy")
  /\ \E ok \in BOOLEAN :
       /\ env' = [env EXCEPT !.destroyCalls = @ + 1, !.destroyFailed = @ \/ ~ok]
       /\ Deliver(Err(IF ok THEN caught ELSE "DestroyErrorInCatch"))
  /\ UNCHANGED <<comp, cwd, built, tested>>
  /\ StepFrame

----------------------------------------------------------------------------
(* Synchronous calls *)

CallStrip ==
  /\ StartOp([NoOp EXCEPT !.name = "stripOriginallySharedDir"])
  /\ comp' = [comp EXCEPT !["this"] = stripOriginallySharedDir(@)]
  /\ pc' = "done"
  /\ outcome' = Ok("none")

CallSetOriginallySharedDir ==
  /\ StartOp([NoOp EXCEPT !.name = "setOriginallySharedDir"])
  /\ comp' = [comp EXCEPT !["this"].originallySharedDir = setOriginallySharedDir(comp["this"])]
  /\ pc' = "done"
  /\ outcome' = Ok("none")

\* the file lists a caller may give the component
FileLists ==
  { <<File(P_x, FALSE), File(P_a_y, TRUE)>>,
    <<File(P_a_y, FALSE), File(P_a_b_x, TRUE)>>,
    <<File(P_a_b_x, FALSE), File(P_a_b_y, TRUE)>>,
    <<File(P_a_b_a_b_y, FALSE)>> }

\* set files(val), lines 154-156: between calls a caller replaces the files
CallSetFiles ==
  /\ pc = "idle"
  /\ \E val \in FileLists :
       /\ val # comp["this"].files
       /\ comp' = [comp EXCEPT !["this"].files = val]
  /\ UNCHANGED <<fromModel, cwd, env, op, pc, caught, built, outcome, log, tested, pre, calls,
                 par, last, heap, ws>>

\* Dependencies.getByIdStr(id): the record of that id, if the class has one
HasId(deps, id) == \E i \in 1..Len(deps) : deps[i].id = id
getByIdStr(deps, id) ==
  deps[CHOOSE i \in 1..Len(deps) : deps[i].id = id /\ \A j \in 1..(i - 1) : deps[j].id # id]

\* Dependencies.add(dependency)
add(deps, dependency) == Append(deps, dependency)

\* copyDependenciesFromModel() copying the record of every class that holds the id
RECURSIVE copyEachEveryMatch(_, _, _)
copyEachEveryMatch(deps, model, ids) ==
  IF ids = <<>> THEN [deps |-> deps, thrown |-> FALSE]
  ELSE LET id == Head(ids)
           holders == {i \in 1..Len(Classes) : HasId(model[Classes[i]], id)}
       IN IF holders = {} THEN [deps |-> deps, thrown |-> TRUE]
          ELSE copyEachEveryMatch(
                 [class \in ClassSet |->
                   IF HasId(model[class], id) THEN add(deps[class], getByIdStr(model[class], id))
                   ELSE deps[class]],
                 model, Tail(ids))

\* copyDependenciesFromModel(), lines 1156-1171: the forEach over ids; it stops at the
\* first id that no class of the model holds, with what it has added so far
RECURSIVE copyEach(_, _, _)
copyEach(deps, model, ids) ==
  IF ids = <<>> THEN [deps |-> deps, thrown |-> FALSE]
  ELSE LET id == Head(ids)
           holders == {i \in 1..Len(Classes) : HasId(model[Classes[i]], id)}
       IN IF holders = {} THEN [deps |-> deps, thrown |-> TRUE]
          ELSE LET class == Classes[CHOOSE i \in holders : \A j \in holders : i <= j]
               IN copyEach([deps EXCEPT ![class] = add(@, getByIdStr(model[class], id))],
                           model, Tail(ids))

Ids == {"d1", "d2", "d3"}
IdLists == UNION { [1..n -> Ids] : n \in 0..MaxIds }

\* copyDependenciesFromModel(ids), lines 1153-1172
CallCopyDependenciesFromModel ==
  /\ \E ids \in IdLists :
       /\ StartOp([NoOp EXCEPT !.name = "copyDependenciesFromModel", !.ids = ids])
       /\ IF ~fromModel.present
            THEN /\ outcome' = Err("Error: component is missing from the model")
                 /\ UNCHANGED comp
            ELSE LET r == copyEach(comp["this"].deps, fromModel.deps, ids)
                 IN /\ comp' = [comp EXCEPT !["this"].deps = r.deps]
                    /\ outcome' = IF r.thrown THEN Err("Error: unable to find dependency")
                                  ELSE Ok("none")
  /\ pc' = "done"

\* the caller takes the result; the next call starts from a clean slate
Return ==
  /\ pc = "done"
  /\ pc' = "idle"
  /\ op' = NoOp
  /\ env' = NoEnv
  /\ caught' = "none"
  /\ built' = Undefined
  /\ tested' = Undefined
  /\ outcome' = NoOutcome
  /\ log' = <<>>
  /\ pre' = comp
  /\ last' = NoLast
  /\ UNCHANGED <<comp, fromModel, cwd, calls, par, heap, ws>>

----------------------------------------------------------------------------
(* Operations on the workspace *)

\* what a call of a workspace operation sets up
StartWsOp(o) ==
  /\ pc = "idle"
  /\ calls < MaxCalls
  /\ calls' = calls + 1
  /\ op' = o
  /\ pre' = comp
  /\ pc' = "done"
  /\ UNCHANGED <<fromModel, cwd, env, caught, built, tested, par, heap>>

\* the version every dependency id of the component asks for
idVersion(id) == "0.0.1"

\* bitMap.isExistWithSameVersion(dependencyId)
isExistWithSameVersion(index, id) == [name |-> id, version |-> idVersion(id)] \in index

\* getDependenciesComponents(ids), lines 1127-1138: the loader called for each id
getDependenciesComponents(index, ids) ==
  [i \in 1..Len(ids) |->
    [ call |-> IF isExistWithSameVersion(index, ids[i]) THEN "consumer.loadComponent"
               ELSE "scope.loadComponent",
      id |-> ids[i] ]]

\* line 1134, that also gives the flag back once every id is in the index
savedAsComponentsReset(flag, loads) ==
  \A i \in 1..Len(loads) : loads[i].call # "scope.loadComponent"

\* this.dependenciesSavedAsComponents after the map over one class, line 1134
savedAsComponents(flag, loads) ==
  flag /\ \A i \in 1..Len(loads) : loads[i].call # "scope.loadComponent"

\* lines 1140-1143: the four classes one after the other; a class one of whose loads
\* fails rejects the call after every id of the class has been handed to its loader
RECURSIVE loadClasses(_, _, _, _, _, _)
loadClasses(flats, index, failing, k, flag, loads) ==
  IF k > Len(Classes) THEN [flag |-> flag, loads |-> loads, err |-> "none"]
  ELSE LET mine == getDependenciesComponents(index, flats[Classes[k]])
           after == savedAsComponents(flag, mine)
       IN IF \E i \in 1..Len(mine) : mine[i].id \in failing
            THEN [flag |-> after, loads |-> loads \o mine, err |-> "ComponentNotFound"]
            ELSE loadClasses(flats, index, failing, k + 1, after, loads \o mine)

\* the flattened lists of the model's component: the ids of its dependencies
modelFlattened ==
  [class \in ClassSet |->
    [i \in 1..Len(fromModel.deps[class]) |-> fromModel.deps[class][i].id]]

\* toComponentWithDependencies(consumer), lines 1122-1151; failing are the ids whose
\* load is rejected
CallToComponentWithDependencies ==
  /\ StartWsOp([NoOp EXCEPT !.name = "toComponentWithDependencies"])
  /\ \E failing \in SUBSET {"d1", "d2"} :
       IF comp["this"].loadedFromFileSystem /\ ~fromModel.present
         THEN /\ outcome' = Err("TypeError")
              /\ log' = <<>>
              /\ UNCHANGED comp
         ELSE LET flats == IF comp["this"].loadedFromFileSystem THEN modelFlattened
                           ELSE comp["this"].flattened
                  r == loadClasses(flats, ws.index, failing, 1,
                                   comp["this"].dependenciesSavedAsComponents, <<>>)
              IN /\ comp' = [comp EXCEPT !["this"].dependenciesSavedAsComponents = r.flag]
                 /\ log' = r.loads
                 /\ outcome' = IF r.err = "none" THEN Ok("ComponentWithDependencies")
                               ELSE Err(r.err)
  /\ UNCHANGED <<ws, last>>

\* between calls a dependency is imported into the workspace: the index tracks it
WorkspaceTracks ==
  /\ pc = "idle"
  /\ \E id \in {"d1", "d2"}, version \in {"0.0.1", "0.0.2"} :
       /\ \A e \in ws.index : e.name # id
       /\ ws' = [ws EXCEPT !.index = @ \cup {[name |-> id, version |-> version]}]
  /\ UNCHANGED <<comp, fromModel, cwd, env, op, pc, caught, built, outcome, log, tested, pre,
                 calls, par, last, heap>>

\* componentMap.removeFiles(filesToDelete)
removeFiles(files, filesToDelete) ==
  SelectSeq(files, LAMBDA f : \A i \in 1..Len(filesToDelete) : filesToDelete[i] # f)

\* getLoadedFiles() that prunes the record before it looks for the main file
getLoadedFilesPruneFirst(record, disk) ==
  LET onDisk(f) == f.relativePath \in disk
      kept == SelectSeq(record.files, onDisk)
      sourceFiles == [i \in 1..Len(kept) |-> File(kept[i].relativePath, kept[i].test)]
      filesToDelete == SelectSeq(record.files, LAMBDA f : ~onDisk(f))
  IN IF filesToDelete = <<>>
       THEN [err |-> "none", files |-> sourceFiles, kept |-> record.files, changed |-> FALSE]
       ELSE IF sourceFiles = <<>>
         THEN [err |-> "MissingFilesFromComponent", files |-> <<>>, kept |-> record.files,
               changed |-> FALSE]
         ELSE IF \E i \in 1..Len(filesToDelete) : filesToDelete[i].relativePath = record.mainFile
           THEN [err |-> "MainFileRemoved", files |-> <<>>,
                 kept |-> removeFiles(record.files, filesToDelete), changed |-> TRUE]
           ELSE [err |-> "none", files |-> sourceFiles,
                 kept |-> removeFiles(record.files, filesToDelete), changed |-> TRUE]

\* getLoadedFiles(), lines 1271-1299: the files loaded, the files the record keeps,
\* and whether the index was changed
getLoadedFiles(record, disk) ==
  LET onDisk(f) == f.relativePath \in disk
      kept == SelectSeq(record.files, onDisk)
      sourceFiles == [i \in 1..Len(kept) |-> File(kept[i].relativePath, kept[i].test)]
      filesToDelete == SelectSeq(record.files, LAMBDA f : ~onDisk(f))
  IN IF filesToDelete = <<>>
       THEN [err |-> "none", files |-> sourceFiles, kept |-> record.files, changed |-> FALSE]
       ELSE IF sourceFiles = <<>>
         THEN [err |-> "MissingFilesFromComponent", files |-> <<>>, kept |-> record.files,
               changed |-> FALSE]
         ELSE IF \E i \in 1..Len(filesToDelete) : filesToDelete[i].relativePath = record.mainFile
           THEN [err |-> "MainFileRemoved", files |-> <<>>, kept |-> record.files,
                 changed |-> FALSE]
           ELSE [err |-> "none", files |-> sourceFiles,
                 kept |-> removeFiles(record.files, filesToDelete), changed |-> TRUE]

\* Component.loadFromFileSystem(...), lines 1246-1403, for the record and the directory
\* of the workspace; the component made becomes the loaded component
CallLoadFromFileSystem ==
  /\ StartWsOp([NoOp EXCEPT !.name = "loadFromFileSystem"])
  /\ last' = [op |-> "loadFromFileSystem", record |-> ws.record, disk |-> ws.disk,
              dirExists |-> ws.dirExists]
  /\ log' = <<>>
  /\ IF ~ws.dirExists
       THEN /\ outcome' = Err("ComponentNotFoundInPath")
            /\ UNCHANGED <<comp, ws>>
       ELSE LET r == getLoadedFiles(ws.record, ws.disk)
            IN /\ ws' = [ws EXCEPT !.record.files = r.kept, !.hasChanged = @ \/ r.changed]
               /\ IF r.err # "none"
                    THEN /\ outcome' = Err(r.err)
                         /\ UNCHANGED comp
                    ELSE /\ outcome' = Ok("component")
                         /\ comp' = [comp EXCEPT !["this"] =
                                       NewComponent(NoCompiler, NoTester, r.files, <<>>,
                                                    ws.record.mainFile, NoDeps)]

\* everything but the workspace
WsFrame ==
  UNCHANGED <<comp, fromModel, cwd, env, op, pc, caught, built, outcome, log, tested, pre,
              calls, par, last, heap>>

\* between calls a tracked file is deleted from the component directory
DiskLoses ==
  /\ pc = "idle"
  /\ \E path \in ws.disk : ws' = [ws EXCEPT !.disk = @ \ {path}]
  /\ WsFrame

\* between calls the component directory is deleted
DirRemoved ==
  /\ pc = "idle"
  /\ ws.dirExists
  /\ ws' = [ws EXCEPT !.dirExists = FALSE, !.disk = {}]
  /\ WsFrame

\* lines 334-340 with the test of the second line applied to AUTHORED components only
nothingDetachedAuthoredOnly(componentMap) ==
  /\ componentMap.origin = "AUTHORED"
  /\ componentMap.detachedCompiler # Defined(TRUE)
  /\ componentMap.detachedTester # Defined(TRUE)

\* writeConfig(), lines 334-340: nothing is detached, no reason to eject
nothingDetached(componentMap) ==
  \/ /\ componentMap.origin = "AUTHORED"
     /\ ~(IsDefined(componentMap.detachedCompiler) /\ Val(componentMap.detachedCompiler))
     /\ ~(IsDefined(componentMap.detachedTester) /\ Val(componentMap.detachedTester))
  \/ /\ componentMap.detachedCompiler = Defined(FALSE)
     /\ componentMap.detachedTester = Defined(FALSE)

\* the directories writeConfig may be given
ConfigDirs == {".", "./", "conf"}

\* writeConfig(consumer, configDir), lines 322-349
CallWriteConfig ==
  /\ StartWsOp([NoOp EXCEPT !.name = "writeConfig"])
  /\ \E configDir \in ConfigDirs :
       /\ last' = [op |-> "writeConfig", tracked |-> ws.tracked, record |-> ws.record,
                   configDir |-> configDir]
       /\ IF ~ws.tracked
            THEN outcome' = Err("GeneralError") /\ log' = <<>> /\ UNCHANGED ws
            ELSE IF configDir = "." \/ configDir = "./"
              THEN outcome' = Err("EjectToWorkspace") /\ log' = <<>> /\ UNCHANGED ws
              ELSE IF nothingDetached(ws.record)
                THEN outcome' = Err("EjectBoundToWorkspace") /\ log' = <<>> /\ UNCHANGED ws
                ELSE /\ log' = <<"ejectConf">>
                     /\ \E ok \in BOOLEAN :
                          IF ok
                            THEN /\ ws' = [ws EXCEPT !.record.configDir = Defined(configDir)]
                                 /\ outcome' = Ok("ejected")
                            ELSE /\ outcome' = Err("EjectError")
                                 /\ UNCHANGED ws
  /\ UNCHANGED comp

\* injectConfig(consumerPath, bitMap), lines 351-367
CallInjectConfig ==
  /\ StartWsOp([NoOp EXCEPT !.name = "injectConfig"])
  /\ last' = [op |-> "injectConfig", tracked |-> ws.tracked, record |-> ws.record,
              configDir |-> ""]
  /\ IF ~ws.tracked
       THEN outcome' = Err("GeneralError") /\ log' = <<>> /\ UNCHANGED ws
       ELSE IF ~IsDefined(ws.record.configDir)
         THEN outcome' = Err("InjectNonEjected") /\ log' = <<>> /\ UNCHANGED ws
         ELSE /\ log' = <<"injectConf">>
              /\ \E ok \in BOOLEAN :
                   IF ok
                     THEN /\ ws' = [ws EXCEPT !.record.configDir = Undefined]
                          /\ outcome' = Ok("injected")
                     ELSE /\ outcome' = Err("InjectError")
                          /\ UNCHANGED ws
  /\ UNCHANGED comp

----------------------------------------------------------------------------
(* Operations in flight at the same time *)

Procs == 1..MaxProcs

\* the root of each operation's component: its written path in its own environment
Roots == <<"rootA", "rootB", "rootC", "rootD">>
root(p) == Roots[p]

NoPar == [p \in Procs |-> [kind |-> "none", loaded |-> FALSE, pc |-> "idle"]]

\* everything but the working directory and the operations in flight
ParFrame ==
  UNCHANGED <<comp, fromModel, env, op, pc, caught, built, outcome, log, tested, pre, calls,
              last, heap, ws>>

\* build() or runSpecs() is called and runs up to its first await
ParCall(p) ==
  /\ par[p].pc = "idle"
  /\ \E kind \in {"build", "runSpecs"}, loaded \in BOOLEAN :
       par' = [par EXCEPT ![p] = [kind |-> kind, loaded |-> loaded,
                                  pc |-> IF loaded THEN "ready" ELSE "installing"]]
  /\ UNCHANGED cwd
  /\ ParFrame

\* lines 813 and 1017: await install(...) of the plugin settles
ParInstalled(p) ==
  /\ par[p].pc = "installing"
  /\ par' = [par EXCEPT ![p].loaded = TRUE, ![p].pc = "ready"]
  /\ UNCHANGED cwd
  /\ ParFrame

\* lines 485-502: process.chdir(componentRoot), then the compiler is called and awaited
ParCompile(p) ==
  /\ par[p].pc = "ready"
  /\ cwd' = root(p)
  /\ par' = [par EXCEPT ![p].pc = "compiling"]
  /\ ParFrame

\* the compiler settles: build() returns, runSpecs() goes on to run()
ParCompiled(p) ==
  /\ par[p].pc = "compiling"
  /\ par' = [par EXCEPT ![p].pc = IF par[p].kind = "build" THEN "settled" ELSE "built"]
  /\ UNCHANGED cwd
  /\ ParFrame

\* lines 821-860: run() does process.chdir(cwd), then the tester is called and awaited
ParTest(p) ==
  /\ par[p].pc = "built"
  /\ cwd' = root(p)
  /\ par' = [par EXCEPT ![p].pc = "testing"]
  /\ ParFrame

\* the tester settles and runSpecs() returns
ParTested(p) ==
  /\ par[p].pc = "testing"
  /\ par' = [par EXCEPT ![p].pc = "settled"]
  /\ UNCHANGED cwd
  /\ ParFrame

\* the caller takes the result; the component may be operated on again
ParReturn(p) ==
  /\ par[p].pc = "settled"
  /\ par' = [par EXCEPT ![p] = NoPar[p]]
  /\ UNCHANGED cwd
  /\ ParFrame

----------------------------------------------------------------------------
(* Construction *)

\* path.normalize of Node on a relative path: '.' for the empty string, runs of
\* separators collapsed to one
RECURSIVE normalize(_)
normalize(pathStr) ==
  IF pathStr = <<>> THEN <<".">>
  ELSE IF Len(pathStr) = 1 THEN pathStr
  ELSE IF pathStr[1] = SEP /\ pathStr[2] = SEP THEN normalize(Tail(pathStr))
  ELSE <<pathStr[1]>> \o normalize(Tail(pathStr))

\* x || y for an optional x
OrElse(x, y) == IF IsDefined(x) THEN x ELSE y

\* new Dists(dists): an instance around the value it is given, [] when given nothing. A
\* value is [wrap, list]: a bare array has wrap 0, and each instance around it adds one.
NoDists == [wrap |-> 0, list |-> <<>>]
Array(list) == [wrap |-> 0, list |-> list]
Dists(dists) == [wrap |-> dists.wrap + 1, list |-> dists.list]

\* new Dependencies(dependencies): the records of one class
Dependencies(dependencies) == dependencies

\* the constructor, lines 194-263: the instance, and the error validateComponent throws
constructor(props) ==
  LET c == [ name |-> props.name,
             version |-> props.version,
             scope |-> props.scope,
             lang |-> OrElse(props.lang, Defined("javascript")),
             bindingPrefix |-> OrElse(props.bindingPrefix, Defined("@bit")),
             mainFile |-> normalize(props.mainFile),
             compiler |-> props.compiler,
             tester |-> props.tester,
             deps |-> [class \in ClassSet |-> Dependencies(props.deps[class])],
             flattened |-> Val(OrElse(props.flattened, Defined([class \in ClassSet |-> <<>>]))),
             packages |-> props.packages,
             files |-> props.files,
             docs |-> props.docs,
             dists |-> Dists(props.dists),
             specsResults |-> props.specsResults,
             license |-> props.license,
             log |-> props.log,
             deprecated |-> IsDefined(props.deprecated) /\ Val(props.deprecated),
             origin |-> props.origin,
             detachedCompiler |-> props.detachedCompiler,
             detachedTester |-> props.detachedTester,
             customResolvedPaths |-> props.customResolvedPaths ]
  IN [ err |-> IF c.name = <<>> \/ c.mainFile = <<>> THEN "GeneralError" ELSE "none",
       c |-> c ]

PackageClasses ==
  { "packageDependencies", "devPackageDependencies", "peerPackageDependencies",
    "compilerPackageDependencies", "testerPackageDependencies" }

\* the arguments new Component(...) is called with
ComponentProps ==
  [ name : { <<>>, <<"n">> },
    version : { Undefined, Defined("0.0.1") },
    scope : { Defined("s") },
    lang : { Undefined },
    bindingPrefix : { Undefined },
    mainFile : { <<>>, P_x, <<"a", SEP, SEP, "y">> },
    compiler : { Undefined, Defined("babel") },
    tester : { Undefined },
    deps : { NoDeps,
             [NoDeps EXCEPT !["devDependencies"] = <<[id |-> "d1", paths |-> <<P_a_y>>]>>] },
    flattened : { Undefined },
    packages : { [k \in PackageClasses |-> <<>>],
                 [k \in PackageClasses |-> IF k = "peerPackageDependencies" THEN <<"react">> ELSE <<>>] },
    files : { <<File(P_x, FALSE)>> },
    docs : { Undefined },
    dists : { NoDists, Array(<<File(P_x, FALSE)>>) },
    specsResults : { Undefined, Defined(<<[specPath |-> P_x, pass |-> TRUE, failures |-> <<>>]>>) },
    license : { Undefined, Defined("MIT") },
    log : { Undefined, Defined("created") },
    deprecated : { Undefined, Defined(FALSE), Defined(TRUE) },
    origin : { Defined("AUTHORED") },
    detachedCompiler : { Undefined, Defined(TRUE) },
    detachedTester : { Undefined },
    customResolvedPaths : { <<>> } ]

\* everything but the record of the last call
LastFrame ==
  UNCHANGED <<comp, fromModel, cwd, env, op, pc, caught, built, outcome, log, tested, pre,
              calls, par, heap, ws>>

\* new Component(props)
CallNew ==
  /\ last = NoLast
  /\ \E props \in ComponentProps :
       last' = [op |-> "new", props |-> props, made |-> constructor(props)]
  /\ LastFrame

\* Dependencies.serialize(), SpecsResults serialize() / deserialize(), License
\* serialize() / deserialize(), the extensions' toObject() / loadFromModelObject()
serialize(dependencies) ==
  [i \in 1..Len(dependencies) |-> [id |-> dependencies[i].id, paths |-> dependencies[i].paths]]
serializeResults(results) ==
  [i \in 1..Len(results) |->
    [specPath |-> results[i].specPath, pass |-> results[i].pass, failures |-> results[i].failures]]
deserializeResults(results) == [i \in 1..Len(results) |-> createFromRaw(results[i])]
serializeLicense(license) == license
deserializeLicense(license) == license
extensionToObject(extension) == extension
loadFromModelObject(object) == object

\* toObject(), lines 1058-1087; an absent value and null are both Undefined
toObject(c) ==
  [ name |-> c.name,
    box |-> Undefined,
    version |-> c.version,
    mainFile |-> c.mainFile,
    scope |-> c.scope,
    lang |-> c.lang,
    bindingPrefix |-> c.bindingPrefix,
    compiler |-> IF IsDefined(c.compiler) THEN Defined(extensionToObject(Val(c.compiler)))
                 ELSE Undefined,
    tester |-> IF IsDefined(c.tester) THEN Defined(extensionToObject(Val(c.tester)))
               ELSE Undefined,
    detachedCompiler |-> c.detachedCompiler,
    detachedTester |-> c.detachedTester,
    deps |-> [class \in ClassSet |-> serialize(c.deps[class])],
    packages |-> c.packages,
    files |-> c.files,
    docs |-> c.docs,
    dists |-> c.dists,
    specsResults |-> IF IsDefined(c.specsResults)
                       THEN Defined(serializeResults(Val(c.specsResults))) ELSE Undefined,
    license |-> IF IsDefined(c.license) THEN Defined(serializeLicense(Val(c.license)))
                ELSE Undefined,
    log |-> c.log,
    deprecated |-> Defined(c.deprecated) ]

\* fromObject(object), lines 1174-1230
fromObject(object) ==
  constructor(
    [ name |-> IF IsDefined(object.box) THEN Val(object.box) \o <<SEP>> \o object.name
               ELSE object.name,
      version |-> object.version,
      scope |-> object.scope,
      lang |-> object.lang,
      bindingPrefix |-> object.bindingPrefix,
      compiler |-> IF IsDefined(object.compiler)
                     THEN Defined(loadFromModelObject(Val(object.compiler))) ELSE Undefined,
      tester |-> IF IsDefined(object.tester)
                   THEN Defined(loadFromModelObject(Val(object.tester))) ELSE Undefined,
      detachedCompiler |-> object.detachedCompiler,
      detachedTester |-> object.detachedTester,
      deps |-> object.deps,
      flattened |-> Undefined,
      packages |-> object.packages,
      mainFile |-> object.mainFile,
      files |-> object.files,
      docs |-> object.docs,
      dists |-> object.dists,
      specsResults |-> IF IsDefined(object.specsResults)
                         THEN Defined(deserializeResults(Val(object.specsResults)))
                         ELSE Undefined,
      license |-> IF IsDefined(object.license)
                    THEN Defined(deserializeLicense(Val(object.license))) ELSE Undefined,
      log |-> Undefined,
      deprecated |-> Defined(IsDefined(object.deprecated) /\ Val(object.deprecated)),
      origin |-> Undefined,
      customResolvedPaths |-> <<>> ])

\* Component.fromObject(c.toObject()) for the instance c that new Component(...) made
CallFromObjectToObject ==
  /\ last.op = "new"
  /\ last.made.err = "none"
  /\ last' = [op |-> "fromObject(toObject)", c |-> last.made.c,
              made |-> fromObject(toObject(last.made.c))]
  /\ LastFrame

\* SourceFile.loadFromParsedStringArray, Dist.loadFromParsedStringArray
loadFromParsedStringArray(arr) == [i \in 1..Len(arr) |-> File(arr[i].relative, arr[i].test)]

\* fromString(str) without the branch for a dists field that is an object
fromStringArrayOnly(object) ==
  fromObject(
    [object EXCEPT
       !.files = loadFromParsedStringArray(object.files),
       !.dists = IF object.dists.wrap = 0
                   THEN Array(loadFromParsedStringArray(object.dists.list))
                   ELSE object.dists])

\* fromString(str), lines 1232-1244, object being JSON.parse(str): a dists field that
\* is an array has wrap 0, one that is an object holding the array under dists has wrap 1
fromString(object) ==
  fromObject(
    [object EXCEPT
       !.files = loadFromParsedStringArray(object.files),
       !.dists = IF object.dists.wrap = 0
                   THEN Array(loadFromParsedStringArray(object.dists.list))
                   ELSE IF object.dists.wrap = 1
                     THEN Array(loadFromParsedStringArray(object.dists.list))
                     ELSE object.dists])

\* Component.fromString on the document of the instance that new Component(...) made,
\* once with its dists as an array and once with the array inside an object
CallFromString ==
  /\ last.op = "new"
  /\ last.made.err = "none"
  /\ LET object == toObject(last.made.c)
         L == object.dists.list
     IN last' = [op |-> "fromString", L |-> L,
                 array |-> fromString([object EXCEPT !.dists = Array(L)]),
                 object |-> fromString([object EXCEPT !.dists = [wrap |-> 1, list |-> L]])]
  /\ LastFrame

\* the caller lets go of what the last call gave it
Forget ==
  /\ last # NoLast
  /\ last' = NoLast
  /\ LastFrame

----------------------------------------------------------------------------
(* clone(): instances and the objects their fields refer to *)

\* the fields of an instance that hold a reference: the four dependency containers,
\* three arrays, and the componentMap object
ArrayFields == Classes \o <<"files", "dists", "customResolvedPaths">>
Fields == ArrayFields \o <<"componentMap">>
FieldSet == {Fields[i] : i \in 1..Len(Fields)}
ArrayFieldSet == {ArrayFields[i] : i \in 1..Len(ArrayFields)}

\* an object of the heap: an array of references, or a record with its revision
\* (how many times it has been rewritten in place)
Leaf(tag) == [kind |-> "leaf", refs |-> <<>>, tag |-> tag]
ArrayOf(refs) == [kind |-> "array", refs |-> refs, tag |-> 0]

\* the instance a load makes: every array holds n fresh records
RECURSIVE allocate(_, _, _, _)
allocate(cells, inst, k, n) ==
  IF k > Len(Fields) THEN [cells |-> cells, instances |-> <<inst>>]
  ELSE IF Fields[k] \in ArrayFieldSet
    THEN LET at == Len(cells)
             records == [i \in 1..n |-> Leaf(0)]
             array == ArrayOf([i \in 1..n |-> at + i])
         IN allocate(Append(cells \o records, array),
                     [inst EXCEPT ![Fields[k]] = at + n + 1], k + 1, n)
    ELSE allocate(Append(cells, Leaf(0)), [inst EXCEPT ![Fields[k]] = Len(cells) + 1], k + 1, n)

\* Dependencies.getClone() handed to new Dependencies(...): a new container around
\* copies of the records
getClone(cells, addr) ==
  LET old == cells[addr].refs
      at == Len(cells)
      copies == [i \in 1..Len(old) |-> cells[old[i]]]
  IN [ cells |-> Append(cells \o copies, ArrayOf([i \in 1..Len(old) |-> at + i])),
       addr |-> at + Len(old) + 1 ]

\* clone() that stops after Object.assign
cloneAssignOnly(h, x) ==
  [h EXCEPT !.instances = Append(@, h.instances[x])]

\* the four setXDependencies(this.xDependencies.getClone()) of clone(), lines 281-284
RECURSIVE setClonedDependencies(_, _, _)
setClonedDependencies(cells, inst, k) ==
  IF k > Len(Classes) THEN [cells |-> cells, inst |-> inst]
  ELSE LET cloned == getClone(cells, inst[Classes[k]])
       IN setClonedDependencies(cloned.cells, [inst EXCEPT ![Classes[k]] = cloned.addr], k + 1)

\* clone(), lines 278-286: Object.assign copies every reference, then the four
\* dependency containers are replaced by clones
clone(h, x) ==
  LET r == setClonedDependencies(h.cells, h.instances[x], 1)
  IN [cells |-> r.cells, instances |-> Append(h.instances, r.inst)]

\* what instance x shows for field f: the revisions of the records of the array, or
\* of the object itself
View(h, x, f) ==
  LET cell == h.cells[h.instances[x][f]]
  IN IF cell.kind = "array" THEN [i \in 1..Len(cell.refs) |-> h.cells[cell.refs[i]].tag]
     ELSE <<cell.tag>>

Views(h) == [x \in 1..Len(h.instances) |-> [f \in FieldSet |-> View(h, x, f)]]

\* everything but the heap, the call counter and the record of the last call
HeapFrame ==
  UNCHANGED <<comp, fromModel, cwd, env, op, pc, caught, built, outcome, log, tested, pre, par,
              ws>>

\* d = c.clone()
CallClone ==
  /\ Len(heap.instances) = 1
  /\ heap' = clone(heap, 1)
  /\ last' = [op |-> "clone", via |-> 1, field |-> "", before |-> Views(heap)]
  /\ UNCHANGED calls
  /\ HeapFrame

\* a record is added to an array through instance x, as dependencies.add(dependency)
\* does at line 1159
AddThrough(x, f) ==
  /\ calls < MaxCalls
  /\ calls' = calls + 1
  /\ LET addr == heap.instances[x][f]
         at == Len(heap.cells)
     IN heap' = [heap EXCEPT !.cells = [Append(@, Leaf(0)) EXCEPT ![addr].refs = Append(@, at + 1)]]
  /\ last' = [op |-> "add", via |-> x, field |-> f, before |-> Views(heap)]
  /\ HeapFrame

\* the i-th record of an array, or the componentMap, is rewritten in place through
\* instance x, as stripOriginallySharedDir (lines 621-635) and setConfigDir (line 346) do
RewriteThrough(x, f, i) ==
  /\ calls < MaxCalls
  /\ calls' = calls + 1
  /\ LET cell == heap.cells[heap.instances[x][f]]
         addr == IF cell.kind = "array" THEN cell.refs[i] ELSE heap.instances[x][f]
     IN heap' = [heap EXCEPT !.cells[addr].tag = @ + 1]
  /\ last' = [op |-> "rewrite", via |-> x, field |-> f, before |-> Views(heap)]
  /\ HeapFrame

----------------------------------------------------------------------------
(* Specification of build() *)

Idle ==
  /\ fromModel = [present |-> FALSE, deps |-> NoDeps]
  /\ cwd = "start"
  /\ env = NoEnv
  /\ op = NoOp
  /\ pc = "idle"
  /\ caught = "none"
  /\ built = Undefined
  /\ tested = Undefined
  /\ outcome = NoOutcome
  /\ log = <<>>
  /\ pre = comp
  /\ calls = 0
  /\ par = NoPar
  /\ last = NoLast
  /\ heap = NoHeap
  /\ ws = NoWs

BuildFileSets ==
  { <<File(P_a_b_x, FALSE), File(P_a_b_a_b_y, TRUE)>>,
    <<File(P_x, FALSE), File(P_a_y, TRUE)>> }

\* the dists a component may carry: none, one per file at the file's path, or one
\* per file below a directory of their own
DistSets(files) ==
  { <<>>, files, [i \in 1..Len(files) |-> File(<<"d", SEP>> \o files[i].relative, files[i].test)] }

Init ==
  /\ \E compiler \in Compilers, files \in BuildFileSets :
       \E dists \in DistSets(files) :
         comp = [ this |-> NewComponent(compiler, NoTester, files, dists,
                                        files[1].relative, NoDeps),
                  iso |-> NoComponent ]
  /\ Idle

Next ==
  \/ CallBuild
  \/ BuildStart
  \/ BuildDecide
  \/ BuildInstall
  \/ BuildIfNeeded
  \/ EnvCreate
  \/ EnvIsolate
  \/ BuildRun
  \/ EnvDestroy
  \/ EnvCatch
  \/ BuildAfter
  \/ BuildSave
  \/ CallStrip
  \/ Return

Spec == Init /\ [][Next]_vars

----------------------------------------------------------------------------
(* Specification of runSpecs() *)

TestFileSets ==
  { <<File(P_x, FALSE)>>,
    <<File(P_x, FALSE), File(P_a_y, TRUE)>>,
    <<File(P_a_b_x, TRUE), File(P_a_b_y, TRUE)>> }

\* dists for the files: none, one per file, or one per file with none flagged a test
TestDistSets(files) ==
  { <<>>, files, [i \in 1..Len(files) |-> File(files[i].relative, FALSE)] }

TestCompilers ==
  { NoCompiler,
    [present |-> TRUE, action |-> FALSE, oldAction |-> TRUE, loaded |-> FALSE] }

InitTest ==
  /\ \E compiler \in TestCompilers, tester \in Testers, files \in TestFileSets :
       \E dists \in TestDistSets(files) :
         comp = [ this |-> NewComponent(compiler, tester, files, dists,
                                        files[1].relative, NoDeps),
                  iso |-> NoComponent ]
  /\ Idle

NextTest ==
  \/ CallRunSpecs
  \/ RunSpecsStart
  \/ TesterInstall
  \/ RunSpecsDispatch
  \/ BuildStart
  \/ BuildDecide
  \/ BuildInstall
  \/ BuildIfNeeded
  \/ BuildRun
  \/ BuildAfter
  \/ RunSpecsWriteDists
  \/ TestEnvCreate
  \/ TestEnvIsolate
  \/ RunSpecsIsoWrite
  \/ RunSpecsRun
  \/ RunSpecsSave
  \/ TestEnvDestroy
  \/ TestEnvCatch
  \/ Return

SpecTest == InitTest /\ [][NextTest]_vars

----------------------------------------------------------------------------
(* Specification of copyDependenciesFromModel() *)

\* a dependency record of the model snapshot; its source path tells the class it is in
ModelDependency(id, k) ==
  [id |-> id, paths |-> << <<"m", SEP, SubSeq(<<"r", "d", "c", "t">>, k, k)[1]>> >>]

ModelLists(k) ==
  { <<>>,
    <<ModelDependency("d1", k)>>,
    <<ModelDependency("d1", k), ModelDependency("d2", k)>> }

OwnDeps ==
  { NoDeps,
    [NoDeps EXCEPT !["dependencies"] = <<[id |-> "d3", paths |-> <<P_a_y>>]>>,
                   !["testerDependencies"] = <<[id |-> "d4", paths |-> <<P_a_y>>]>>] }

\* getAllDependencies() with the dev records ahead of the runtime records
getAllDependenciesDevFirst(c) ==
  c.deps["devDependencies"] \o c.deps["dependencies"]
    \o c.deps["compilerDependencies"] \o c.deps["testerDependencies"]

\* getAllDependencies(), lines 409-416
getAllDependencies(c) ==
  c.deps["dependencies"] \o c.deps["devDependencies"]
    \o c.deps["compilerDependencies"] \o c.deps["testerDependencies"]

\* getAllFlattenedDependencies(), lines 432-439
getAllFlattenedDependencies(c) ==
  c.flattened["dependencies"] \o c.flattened["devDependencies"]
    \o c.flattened["compilerDependencies"] \o c.flattened["testerDependencies"]

\* a caller reads both lists of the component once a call has settled
CallGetAllDependencies ==
  /\ pc = "done"
  /\ last = NoLast
  /\ last' = [op |-> "getAllDependencies", c |-> comp["this"],
              all |-> getAllDependencies(comp["this"]),
              flattened |-> getAllFlattenedDependencies(comp["this"])]
  /\ LastFrame

InitDeps ==
  /\ \E r \in ModelLists(1), d \in ModelLists(2), c \in ModelLists(3), t \in ModelLists(4) :
       \E present \in BOOLEAN :
         /\ ~present => (r = <<>> /\ d = <<>> /\ c = <<>> /\ t = <<>>)
         /\ fromModel =
              [ present |-> present,
                deps |-> [class \in ClassSet |->
                           IF class = "dependencies" THEN r
                           ELSE IF class = "devDependencies" THEN d
                           ELSE IF class = "compilerDependencies" THEN c
                           ELSE t] ]
  /\ \E own \in OwnDeps :
       comp = [ this |-> NewComponent(NoCompiler, NoTester, <<File(P_x, FALSE)>>, <<>>, P_x, own),
                iso |-> NoComponent ]
  /\ cwd = "start"
  /\ env = NoEnv
  /\ op = NoOp
  /\ pc = "idle"
  /\ caught = "none"
  /\ built = Undefined
  /\ tested = Undefined
  /\ outcome = NoOutcome
  /\ log = <<>>
  /\ pre = comp
  /\ calls = 0
  /\ par = NoPar
  /\ last = NoLast
  /\ heap = NoHeap
  /\ ws = NoWs

NextDeps ==
  \/ CallCopyDependenciesFromModel
  \/ CallGetAllDependencies
  \/ Return

SpecDeps == InitDeps /\ [][NextDeps]_vars

----------------------------------------------------------------------------
(* Specification of the shared directory *)

Segments == { <<"a">>, <<"a", "b">> }

\* the relative paths of at most d segments
RECURSIVE PathsOfDepth(_)
PathsOfDepth(d) ==
  IF d = 1 THEN Segments
  ELSE LET shorter == PathsOfDepth(d - 1)
       IN shorter \cup { p \o <<SEP>> \o seg : p \in shorter, seg \in Segments }

PathUniverse == PathsOfDepth(MaxDepth)

PathDeps ==
  { NoDeps } \cup
  { [NoDeps EXCEPT ![class] = <<[id |-> "d1", paths |-> <<p>>]>>] :
      class \in ClassSet, p \in PathUniverse }

InitPaths ==
  /\ \E p1 \in PathUniverse, p2 \in PathUniverse, deps \in PathDeps :
       comp = [ this |-> NewComponent(NoCompiler, NoTester,
                                      <<File(p1, FALSE), File(p2, TRUE)>>,
                                      <<File(p1, FALSE), File(p2, TRUE)>>, p1, deps),
                iso |-> NoComponent ]
  /\ Idle

NextPaths ==
  \/ CallSetOriginallySharedDir
  \/ CallStrip
  \/ Return

SpecPaths == InitPaths /\ [][NextPaths]_vars

----------------------------------------------------------------------------
(* Specification of operations in flight at the same time *)

InitPar ==
  /\ comp = [ this |-> NoComponent, iso |-> NoComponent ]
  /\ Idle

NextPar ==
  \/ \E p \in Procs : ParCall(p)
  \/ \E p \in Procs : ParInstalled(p)
  \/ \E p \in Procs : ParCompile(p)
  \/ \E p \in Procs : ParCompiled(p)
  \/ \E p \in Procs : ParTest(p)
  \/ \E p \in Procs : ParTested(p)
  \/ \E p \in Procs : ParReturn(p)

SpecPar == InitPar /\ [][NextPar]_vars

----------------------------------------------------------------------------
(* Specification of the workspace operations *)

WsDeps ==
  { NoDeps,
    [NoDeps EXCEPT !["dependencies"] = <<[id |-> "d1", paths |-> <<P_a_y>>],
                                         [id |-> "d2", paths |-> <<P_a_y>>]>>],
    [NoDeps EXCEPT !["dependencies"] = <<[id |-> "d1", paths |-> <<P_a_y>>]>>,
                   !["testerDependencies"] = <<[id |-> "d2", paths |-> <<P_a_y>>]>>],
    [NoDeps EXCEPT !["devDependencies"] = <<[id |-> "d2", paths |-> <<P_a_y>>]>>,
                   !["compilerDependencies"] = <<[id |-> "d1", paths |-> <<P_a_y>>]>>] }

InitWs ==
  /\ \E own \in WsDeps, loaded \in BOOLEAN :
       comp = [ this |-> [NewComponent(NoCompiler, NoTester, <<File(P_x, FALSE)>>, <<>>, P_x, own)
                            EXCEPT !.loadedFromFileSystem = loaded],
                iso |-> NoComponent ]
  /\ \E present \in BOOLEAN, deps \in WsDeps :
       /\ ~present => deps = NoDeps
       /\ fromModel = [present |-> present, deps |-> deps]
  /\ cwd = "start"
  /\ env = NoEnv
  /\ op = NoOp
  /\ pc = "idle"
  /\ caught = "none"
  /\ built = Undefined
  /\ tested = Undefined
  /\ outcome = NoOutcome
  /\ log = <<>>
  /\ pre = comp
  /\ calls = 0
  /\ par = NoPar
  /\ last = NoLast
  /\ heap = NoHeap
  /\ ws = NoWs

NextWs ==
  \/ CallToComponentWithDependencies
  \/ WorkspaceTracks
  \/ Return

SpecWs == InitWs /\ [][NextWs]_vars

----------------------------------------------------------------------------
(* Specification of loadFromFileSystem() *)

Tracked(rel, t) == [relativePath |-> rel, test |-> t]

LoadRecords ==
  { [NoRecord EXCEPT !.files = <<Tracked(P_x, FALSE), Tracked(P_a_y, TRUE), Tracked(P_a_b_x, FALSE)>>,
                     !.mainFile = P_x],
    [NoRecord EXCEPT !.files = <<Tracked(P_a_y, TRUE), Tracked(P_x, FALSE)>>, !.mainFile = P_x],
    [NoRecord EXCEPT !.files = <<Tracked(P_x, FALSE)>>, !.mainFile = P_x] }

InitLoad ==
  /\ comp = [ this |-> NoComponent, iso |-> NoComponent ]
  /\ fromModel = [present |-> FALSE, deps |-> NoDeps]
  /\ cwd = "start"
  /\ env = NoEnv
  /\ op = NoOp
  /\ pc = "idle"
  /\ caught = "none"
  /\ built = Undefined
  /\ tested = Undefined
  /\ outcome = NoOutcome
  /\ log = <<>>
  /\ pre = comp
  /\ calls = 0
  /\ par = NoPar
  /\ last = NoLast
  /\ heap = NoHeap
  /\ \E record \in LoadRecords :
       ws = [NoWs EXCEPT !.tracked = TRUE, !.record = record,
                         !.disk = {record.files[i].relativePath : i \in 1..Len(record.files)}]

NextLoad ==
  \/ CallLoadFromFileSystem
  \/ DiskLoses
  \/ DirRemoved
  \/ Return

SpecLoad == InitLoad /\ [][NextLoad]_vars

----------------------------------------------------------------------------
(* Specification of writeConfig() and injectConfig() *)

ConfigRecords ==
  { [NoRecord EXCEPT !.origin = origin, !.detachedCompiler = detachedCompiler,
                     !.detachedTester = detachedTester, !.configDir = configDir,
                     !.files = <<Tracked(P_x, FALSE)>>, !.mainFile = P_x] :
      origin \in {"AUTHORED", "IMPORTED", "NESTED"},
      detachedCompiler \in {Undefined, Defined(FALSE), Defined(TRUE)},
      detachedTester \in {Undefined, Defined(FALSE), Defined(TRUE)},
      configDir \in {Undefined, Defined("conf")} }

InitConfig ==
  /\ comp = [ this |-> NoComponent, iso |-> NoComponent ]
  /\ fromModel = [present |-> FALSE, deps |-> NoDeps]
  /\ cwd = "start"
  /\ env = NoEnv
  /\ op = NoOp
  /\ pc = "idle"
  /\ caught = "none"
  /\ built = Undefined
  /\ tested = Undefined
  /\ outcome = NoOutcome
  /\ log = <<>>
  /\ pre = comp
  /\ calls = 0
  /\ par = NoPar
  /\ last = NoLast
  /\ heap = NoHeap
  /\ \/ ws = NoWs
     \/ \E record \in ConfigRecords : ws = [NoWs EXCEPT !.tracked = TRUE, !.record = record]

NextConfig ==
  \/ CallWriteConfig
  \/ CallInjectConfig
  \/ Return

SpecConfig == InitConfig /\ [][NextConfig]_vars

----------------------------------------------------------------------------
(* Specification of the shared directory of a component whose files are replaced *)

InitShared ==
  /\ \E files \in FileLists, deps \in {NoDeps, [NoDeps EXCEPT !["dependencies"] =
                                                 <<[id |-> "d1", paths |-> <<P_a_b_y>>]>>]} :
       \E customResolvedPaths \in {<<>>, << <<"n", SEP>> \o P_a_b_x >>} :
         comp = [ this |-> [NewComponent(NoCompiler, NoTester, files, <<>>, files[1].relative, deps)
                              EXCEPT !.customResolvedPaths = customResolvedPaths],
                  iso |-> NoComponent ]
  /\ Idle

NextShared ==
  \/ CallSetOriginallySharedDir
  \/ CallStrip
  \/ CallSetFiles
  \/ Return

SpecShared == InitShared /\ [][NextShared]_vars

----------------------------------------------------------------------------
(* write() and _writeToComponentDir() *)

\* the index as isExistWithSameVersion(this.id) sees the component itself
selfIndex(w) == IF w.tracked THEN {[name |-> "this", version |-> w.record.version]} ELSE {}

\* bitMap.removeComponent(this.id)
removeComponent(w) == [w EXCEPT !.tracked = FALSE, !.record = NoRecord]

\* _addComponentToBitMap(), lines 577-600: the record bitMap.addComponent is given
addComponentToBitMap(w, c, rootDir, origin, configDir) ==
  [w EXCEPT
     !.tracked = TRUE,
     !.record = [NoRecord EXCEPT
                   !.files = [i \in 1..Len(c.files) |->
                               Tracked(c.files[i].relative, c.files[i].test)],
                   !.mainFile = c.mainFile,
                   !.rootDir = rootDir,
                   !.configDir = configDir,
                   !.origin = origin,
                   !.originallySharedDir = c.originallySharedDir,
                   !.version = idVersion("this")]]

\* line 736 without its test of the record's origin
becomesImportedNever(origin, componentMap) == FALSE

\* write(), line 736: a component that was a dependency is now imported
becomesImported(origin, componentMap) == origin = "IMPORTED" /\ componentMap.origin = "NESTED"

\* lines 754-756 looking at the version only
updateBitMapVersionOnly(sameVersion, recordDir, ownDir) == ~sameVersion

\* lines 754-756 updating the index on every write
updateBitMapAlways(sameVersion, recordDir, ownDir) == TRUE

\* write(), lines 754-756: const updateBitMap
updateBitMap(sameVersion, recordDir, ownDir) == ~sameVersion \/ recordDir # ownDir

\* write(), lines 690-766: what the synchronous part does to the index and the
\* component, the calls it makes, and what it hands to _writeToComponentDir
writeIndex(w, c, a) ==
  LET calculatedBitDir == IF a.bitDir THEN "bitDir" ELSE "base"
      isNew == ~w.tracked
      w1 == IF isNew THEN addComponentToBitMap(w, c, calculatedBitDir, a.origin, a.configDir)
            ELSE w
      log1 == IF isNew THEN <<"bitMap.addComponent">> ELSE <<>>
      c1 == IF ~a.distsInside /\ c.dists = <<>> THEN copyFilesIntoDists(c) ELSE c
      nested == becomesImported(a.origin, w1.record)
      w2 == IF nested
              THEN addComponentToBitMap(removeComponent([w1 EXCEPT !.disk = {}]), c1,
                                        calculatedBitDir, a.origin, a.configDir)
              ELSE w1
      log2 == IF nested
                THEN log1 \o <<"fs.removeSync", "bitMap.removeComponent", "bitMap.addComponent">>
                ELSE log1
      componentMap == w2.record
      newBase == IF componentMap.rootDir = "" THEN "workspace" ELSE componentMap.rootDir
      c2 == [c1 EXCEPT !.writtenPath = newBase]
      resolvedConfigDir == IF IsDefined(a.configDir) THEN a.configDir ELSE componentMap.configDir
      same == isExistWithSameVersion(selfIndex(w2), "this")
      update == updateBitMap(same, componentMap.originallySharedDir, c2.originallySharedDir)
      w3 == IF update
              THEN addComponentToBitMap(IF same THEN removeComponent(w2) ELSE w2, c2,
                                        componentMap.rootDir, a.origin, resolvedConfigDir)
              ELSE w2
      log3 == IF ~update THEN log2
              ELSE IF same THEN log2 \o <<"bitMap.removeComponent", "bitMap.addComponent">>
              ELSE Append(log2, "bitMap.addComponent")
      plan == [ bitDir |-> newBase,
                writeConfig |-> a.writeConfig /\ componentMap.origin # "AUTHORED",
                configDir |-> resolvedConfigDir,
                writePackageJson |-> a.writePackageJson /\ a.origin # "AUTHORED",
                deleteBitDirContent |-> IF IsDefined(a.deleteBitDirContent)
                                          THEN Val(a.deleteBitDirContent)
                                          ELSE a.origin = "IMPORTED" ]
  IN IF nested /\ ~a.removeOk
       THEN [err |-> "RemoveError", ws |-> w1, log |-> Append(log1, "fs.removeSync"),
             comp |-> c1, plan |-> plan]
       ELSE [err |-> "none", ws |-> w3, log |-> log3, comp |-> c2, plan |-> plan]

\* the arguments of write() and what the environment does to fs.removeSync
WriteArgs ==
  { a \in [ consumer : BOOLEAN, bitDir : BOOLEAN, origin : {"AUTHORED", "IMPORTED", "NESTED"},
            writeConfig : BOOLEAN, configDir : {Undefined, Defined("conf")},
            writePackageJson : BOOLEAN,
            deleteBitDirContent : {Undefined, Defined(FALSE)},
            distsInside : BOOLEAN, isolated : BOOLEAN, removeOk : BOOLEAN ] :
      \* arguments the code never reads in the case at hand are fixed
      /\ ~a.consumer =>
           /\ a.origin = "AUTHORED" /\ ~a.writeConfig /\ a.configDir = Undefined
           /\ a.deleteBitDirContent = Undefined /\ a.distsInside /\ ~a.isolated /\ a.removeOk
      /\ ~a.writeConfig => a.configDir = Undefined
      /\ (~a.writePackageJson \/ a.origin = "AUTHORED") => ~a.isolated }

\* write(), lines 661-766: everything up to the first await
CallWrite ==
  /\ pc = "idle"
  /\ calls < MaxCalls
  /\ calls' = calls + 1
  /\ op' = [NoOp EXCEPT !.name = "write"]
  /\ pre' = comp
  /\ \E a \in WriteArgs :
       /\ ~(a.origin = "IMPORTED" /\ ws.tracked /\ ws.record.origin = "NESTED") => a.removeOk
       /\ (comp["this"].dists # <<>>) => a.distsInside
       /\ (a.consumer /\ ws.tracked /\ ~(a.origin = "IMPORTED" /\ ws.record.origin = "NESTED"))
            => ~a.bitDir
       /\ IF ~a.consumer
            THEN /\ last' = [op |-> "write", a |-> a, ws0 |-> ws,
                             plan |-> [ bitDir |-> IF a.bitDir THEN "bitDir" ELSE "base",
                                        writeConfig |-> a.writeConfig,
                                        configDir |-> Undefined,
                                        writePackageJson |-> a.writePackageJson,
                                        deleteBitDirContent |-> FALSE ]]
                 /\ pc' = "w_prepare"
                 /\ log' = <<>>
                 /\ UNCHANGED <<comp, ws, outcome>>
            ELSE LET r == writeIndex(ws, comp["this"], a)
                 IN /\ last' = [op |-> "write", a |-> a, ws0 |-> ws, plan |-> r.plan]
                    /\ comp' = [comp EXCEPT !["this"] = r.comp]
                    /\ ws' = r.ws
                    /\ log' = r.log
                    /\ IF r.err = "none"
                         THEN pc' = "w_prepare" /\ UNCHANGED outcome
                         ELSE pc' = "done" /\ outcome' = Err(r.err)
  /\ UNCHANGED <<fromModel, cwd, env, caught, built, tested, par, heap>>

\* what a step of _writeToComponentDir leaves alone
WriteFrame ==
  UNCHANGED <<comp, fromModel, cwd, env, op, caught, built, tested, pre, calls, par, last, heap>>

WriteFails(e) == pc' = "done" /\ outcome' = Err(e)
WriteGoes(p) == pc' = p /\ UNCHANGED outcome

\* _writeToComponentDir(), lines 555-559: fs.emptyDirSync(bitDir) or await mkdirp(bitDir)
WritePrepare ==
  /\ pc = "w_prepare"
  /\ log' = Append(log, IF last.plan.deleteBitDirContent THEN "fs.emptyDirSync" ELSE "mkdirp")
  /\ \E ok \in BOOLEAN :
       IF ok
         THEN /\ ws' = [ws EXCEPT !.dirExists = TRUE,
                                  !.disk = IF last.plan.deleteBitDirContent THEN {} ELSE @]
              /\ WriteGoes("w_files")
         ELSE /\ WriteFails("DirError")
              /\ UNCHANGED ws
  /\ WriteFrame

\* line 560: await Promise.all(this.files.map(file => file.write(undefined, override)))
WriteFiles ==
  /\ pc = "w_files"
  /\ log' = Append(log, "file.write")
  /\ LET files == comp["this"].files
     IN \E n \in 0..Len(files) :
          /\ ws' = [ws EXCEPT !.disk = @ \cup {files[i].relative : i \in 1..n}]
          /\ IF n = Len(files) THEN WriteGoes("w_dists") ELSE WriteFails("FileWriteError")
  /\ WriteFrame

\* line 561: await this.dists.writeDists(this, consumer, false)
WriteDists ==
  /\ pc = "w_dists"
  /\ log' = Append(log, "dists.writeDists")
  /\ \E ok \in BOOLEAN : IF ok THEN WriteGoes("w_config") ELSE WriteFails("WriteDistsError")
  /\ UNCHANGED ws
  /\ WriteFrame

\* lines 562-565: await this.writeConfig(consumer, resolvedConfigDir, override)
WriteEjects ==
  /\ pc = "w_config"
  /\ IF ~(last.plan.writeConfig /\ last.a.consumer)
       THEN WriteGoes("w_package") /\ UNCHANGED <<log, ws>>
       ELSE LET resolvedConfigDir == IF IsDefined(last.plan.configDir)
                                       THEN Val(last.plan.configDir) ELSE "ejected"
            IN IF ~ws.tracked
                 THEN WriteFails("GeneralError") /\ UNCHANGED <<log, ws>>
                 ELSE IF nothingDetached(ws.record)
                   THEN WriteFails("EjectBoundToWorkspace") /\ UNCHANGED <<log, ws>>
                   ELSE /\ log' = Append(log, "ejectConf")
                        /\ \E ok \in BOOLEAN :
                             IF ok
                               THEN /\ ws' = [ws EXCEPT !.record.configDir =
                                                          Defined(resolvedConfigDir)]
                                    /\ WriteGoes("w_package")
                               ELSE /\ WriteFails("EjectError")
                                    /\ UNCHANGED ws
  /\ WriteFrame

\* lines 569-571: the package.json of the component, never the one of the workspace
WritePackageJson ==
  /\ pc = "w_package"
  /\ IF ~last.plan.writePackageJson
       THEN WriteGoes("w_license") /\ UNCHANGED log
       ELSE IF ~last.a.consumer
         THEN WriteFails("TypeError") /\ UNCHANGED log
         ELSE IF ~(last.a.isolated \/ last.plan.bitDir # "workspace")
           THEN WriteGoes("w_license") /\ UNCHANGED log
           ELSE /\ log' = Append(log, "writePackageJson")
                /\ \E ok \in BOOLEAN :
                     IF ok THEN WriteGoes("w_license") ELSE WriteFails("PackageJsonError")
  /\ UNCHANGED ws
  /\ WriteFrame

\* lines 572-574: the license, when the component has one, then `return this`
WriteLicense ==
  /\ pc = "w_license"
  /\ \/ /\ UNCHANGED log
        /\ pc' = "done" /\ outcome' = Ok("this")
     \/ /\ log' = Append(log, "license.write")
        /\ \E ok \in BOOLEAN :
             IF ok THEN pc' = "done" /\ outcome' = Ok("this") ELSE WriteFails("LicenseError")
  /\ UNCHANGED ws
  /\ WriteFrame

\* the components write() is given: as loaded, or with the shared directory stripped
WriteComponents ==
  { [NewComponent(NoCompiler, NoTester, <<File(P_a_b_x, FALSE), File(P_a_b_y, TRUE)>>, dists,
                  P_a_b_x, NoDeps) EXCEPT !.dists = dists] :
      dists \in {<<>>, <<File(P_a_b_x, FALSE)>>} }
  \cup
  { [NewComponent(NoCompiler, NoTester, <<File(P_x, FALSE), File(<<"y">>, TRUE)>>, dists,
                  P_x, NoDeps)
       EXCEPT !.originallySharedDir = Defined(<<"a", SEP, "b">>),
              !.wasOriginallySharedDirStripped = TRUE] :
      dists \in {<<>>, <<File(P_x, FALSE)>>} }

\* the records the index may hold for the component
WriteRecords ==
  { [NoRecord EXCEPT !.origin = origin, !.version = version,
                     !.originallySharedDir = dir,
                     !.rootDir = IF origin = "AUTHORED" THEN "" ELSE "components",
                     !.detachedCompiler = IF origin = "AUTHORED" THEN Undefined ELSE Defined(TRUE),
                     !.files = <<Tracked(P_x, FALSE)>>, !.mainFile = P_x] :
      origin \in {"AUTHORED", "IMPORTED", "NESTED"},
      version \in {"0.0.1", "0.0.2"},
      dir \in {Undefined, Defined(<<"a", SEP, "b">>)} }

InitWrite ==
  /\ \E c \in WriteComponents : comp = [ this |-> c, iso |-> NoComponent ]
  /\ fromModel = [present |-> FALSE, deps |-> NoDeps]
  /\ cwd = "start"
  /\ env = NoEnv
  /\ op = NoOp
  /\ pc = "idle"
  /\ caught = "none"
  /\ built = Undefined
  /\ tested = Undefined
  /\ outcome = NoOutcome
  /\ log = <<>>
  /\ pre = comp
  /\ calls = 0
  /\ par = NoPar
  /\ last = NoLast
  /\ heap = NoHeap
  /\ \/ ws = NoWs
     \/ \E record \in WriteRecords : ws = [NoWs EXCEPT !.tracked = TRUE, !.record = record]

NextWrite ==
  \/ CallWrite
  \/ WritePrepare
  \/ WriteFiles
  \/ WriteDists
  \/ WriteEjects
  \/ WritePackageJson
  \/ WriteLicense
  \/ Return

SpecWrite == InitWrite /\ [][NextWrite]_vars

----------------------------------------------------------------------------
(* execAction() of the command registrar *)

\* the code property an error may carry: none, a number, or a string such as ENOENT
NoCode == [kind |-> "none", n |-> 0]
ErrorCodes ==
  { NoCode, [kind |-> "number", n |-> 0], [kind |-> "number", n |-> 2],
    [kind |-> "string", n |-> 0] }

\* `err.code` read as a condition
truthy(code) == code.kind = "string" \/ (code.kind = "number" /\ code.n # 0)

\* serializeErrAndExit(), line 90: err.code && isNumeric(err.code) ? err.code : 1
exitCodeOf(code) == IF truthy(code) /\ code.kind = "number" THEN code.n ELSE 1

\* the commands execAction is given
Commands == [loader : BOOLEAN, migration : BOOLEAN, private : BOOLEAN]

\* what a step of execAction leaves alone
CliFrame ==
  UNCHANGED <<comp, fromModel, cwd, env, op, caught, built, tested, pre, calls, par, heap, ws>>

\* a promise of the chain rejects with an error: the catch handler of line 72 is next
CliRejects ==
  \E code \in ErrorCodes :
    /\ last' = [last EXCEPT !.err = code]
    /\ pc' = "x_catch"

\* logger.exitAfterFlush(code, commandName)
CliExits(code, entries) ==
  /\ log' = log \o entries \o <<"logger.exitAfterFlush">>
  /\ last' = [last EXCEPT !.exits = Append(@, code)]
  /\ pc' = "done"
  /\ outcome' = Ok("exit")

\* execAction(), lines 48-65: its synchronous part
CallExecAction ==
  /\ pc = "idle"
  /\ calls < MaxCalls
  /\ calls' = calls + 1
  /\ op' = [NoOp EXCEPT !.name = "execAction"]
  /\ pre' = comp
  /\ \E command \in Commands :
       /\ last' = [op |-> "execAction", command |-> command, err |-> NoCode, exits |-> <<>>]
       /\ log' = IF command.loader THEN <<"loader.on">> ELSE <<>>
  /\ pc' = "x_migrate"
  /\ UNCHANGED <<comp, fromModel, cwd, env, caught, built, tested, par, heap, ws, outcome>>

\* lines 57-65: migrateWrapper(command.migration)
CliMigrate ==
  /\ pc = "x_migrate"
  /\ IF ~last.command.migration
       THEN pc' = "x_action" /\ UNCHANGED <<log, last>>
       ELSE /\ log' = Append(log, "migrate")
            /\ \/ pc' = "x_action" /\ UNCHANGED last
               \/ CliRejects
  /\ UNCHANGED outcome
  /\ CliFrame

\* line 67: command.action(relevantArgs, opts)
CliAction ==
  /\ pc = "x_action"
  /\ log' = Append(log, "command.action")
  /\ \/ pc' = "x_report" /\ UNCHANGED last
     \/ CliRejects
  /\ UNCHANGED outcome
  /\ CliFrame

\* lines 68-69 and 12-14: loader.off(), command.report(data), process.stdout.write
CliReport ==
  /\ pc = "x_report"
  /\ log' = log \o <<"loader.off", "command.report">>
  /\ \/ pc' = "x_write" /\ UNCHANGED last
     \/ CliRejects
  /\ UNCHANGED outcome
  /\ CliFrame

\* line 13: the callback of process.stdout.write
CliWritten ==
  /\ pc = "x_write"
  /\ CliExits(0, <<>>)
  /\ CliFrame

\* lines 72-85, 16-20 and 88-92: the catch handler
CliCatch ==
  /\ pc = "x_catch"
  /\ \E errorHandled \in BOOLEAN :
       IF last.command.private
         THEN CliExits(exitCodeOf(last.err), <<"logger.error", "loader.off">>)
         ELSE IF errorHandled
           THEN CliExits(1, <<"logger.error", "loader.off", "console.error">>)
           ELSE IF truthy(last.err)
             THEN /\ log' = log \o <<"logger.error", "loader.off", "throw">>
                  /\ pc' = "done"
                  /\ outcome' = Err("unhandled rejection")
                  /\ UNCHANGED last
             ELSE CliExits(1, <<"logger.error", "loader.off", "console.error">>)
  /\ CliFrame

\* the process is gone, or the rejection stays unhandled: nothing more happens
CliOver ==
  /\ pc = "done"
  /\ op.name = "execAction"
  /\ pc' = "over"
  /\ UNCHANGED <<outcome, log, last>>
  /\ CliFrame

InitCli ==
  /\ comp = [ this |-> NoComponent, iso |-> NoComponent ]
  /\ fromModel = [present |-> FALSE, deps |-> NoDeps]
  /\ cwd = "start"
  /\ env = NoEnv
  /\ op = NoOp
  /\ pc = "idle"
  /\ caught = "none"
  /\ built = Undefined
  /\ tested = Undefined
  /\ outcome = NoOutcome
  /\ log = <<>>
  /\ pre = comp
  /\ calls = 0
  /\ par = NoPar
  /\ last = NoLast
  /\ heap = NoHeap
  /\ ws = NoWs

NextCli ==
  \/ CallExecAction
  \/ CliMigrate
  \/ CliAction
  \/ CliReport
  \/ CliWritten
  \/ CliCatch
  \/ CliOver

SpecCli == InitCli /\ [][NextCli]_vars

----------------------------------------------------------------------------
(* Specification of clone() *)

InitClone ==
  /\ comp = [ this |-> NoComponent, iso |-> NoComponent ]
  /\ fromModel = [ present |-> FALSE, deps |-> NoDeps ]
  /\ cwd = "start"
  /\ env = NoEnv
  /\ op = NoOp
  /\ pc = "idle"
  /\ caught = "none"
  /\ built = Undefined
  /\ tested = Undefined
  /\ outcome = NoOutcome
  /\ log = <<>>
  /\ pre = comp
  /\ calls = 0
  /\ par = NoPar
  /\ last = NoLast
  /\ \E n \in 0..1 : heap = allocate(<<>>, [f \in FieldSet |-> 0], 1, n)
  /\ ws = NoWs

NextClone ==
  \/ CallClone
  \/ \E x \in 1..Len(heap.instances), f \in ArrayFieldSet : AddThrough(x, f)
  \/ \E x \in 1..Len(heap.instances), f \in FieldSet :
       \E i \in 1..(IF f \in ArrayFieldSet THEN Len(heap.cells[heap.instances[x][f]].refs) ELSE 1) :
         RewriteThrough(x, f, i)

SpecClone == InitClone /\ [][NextClone]_vars

----------------------------------------------------------------------------
(* Specification of construction and serialization *)

InitObj ==
  /\ comp = [ this |-> NoComponent, iso |-> NoComponent ]
  /\ Idle

NextObj ==
  \/ CallNew
  \/ CallFromObjectToObject
  \/ CallFromString
  \/ Forget

SpecObj == InitObj /\ [][NextObj]_vars

----------------------------------------------------------------------------
(* Claims about build(), checked under Spec *)

InLog(e) == \E i \in 1..Len(log) : log[i] = e
Installed == InLog("compiler.install")
Invoked == InLog("compiler.action") \/ InLog("compiler.oldAction")

\* a top-level build() of a component that has a compiler has settled
BuildDone == pc = "done" /\ op.name = "build" /\ pre["this"].compiler.present

\* build() handed back this.dists without taking the rebuild path
ReusedDists == BuildDone /\ outcome = Ok("dists") /\ log = <<>>

\* C1: every isolated environment created by the operation is destroyed, on every
\* exit path, if and only if the caller did not ask to keep it.
C1_DestroyedIffNotKeep ==
  (pc = "done" /\ env.exists) => ((env.destroyCalls > 0) <=> ~op.keep)

\* C2: when the operation fails with its isolated environment live and the destroy()
\* of the failure path fails too, the caller gets the original error.
C2_OriginalErrorDelivered ==
  (pc = "done" /\ env.exists /\ caught # "none" /\ env.destroyFailed) => outcome.err = caught

\* C3 as stated: with a compiler, the compiler is installed or invoked only when noCache
\* is set or a workspace reports the component modified.
C3_RunsOnlyWhenForcedOrModified ==
  (BuildDone /\ (Installed \/ Invoked)) => (op.noCache \/ (op.consumer /\ op.modified))

RebuildCases == op.noCache \/ (op.consumer /\ op.modified) \/ pre["this"].dists = <<>>

\* C3 amended: with a compiler, build() takes the rebuild path exactly when noCache is
\* set, or a workspace reports the component modified, or the component has no dists:
\* then the compiler is installed when it was not loaded, and a build that succeeds has
\* invoked it; in every other case it is neither installed nor invoked and the dists
\* are handed back.
C3_RebuildExactly ==
  BuildDone =>
    /\ (Installed \/ Invoked) => RebuildCases
    /\ RebuildCases =>
         /\ ~pre["this"].compiler.loaded => Installed
         /\ outcome.status = "ok" => Invoked
         /\ ~Invoked => outcome.err \in
              {"InstallError", "InvalidCompilerInterface", "CreateError", "IsolateError",
               "DestroyErrorInCatch"}
    /\ ~RebuildCases => ReusedDists

C3_Witness ==
  /\ BuildDone /\ ~op.noCache /\ ~op.consumer
  /\ pre["this"].dists = <<>>
  /\ Installed /\ Invoked /\ outcome.status = "ok"

\* the case C4 is about
CachedCase ==
  /\ BuildDone
  /\ pre["this"].dists # <<>>
  /\ ~op.noCache /\ op.consumer /\ ~op.modified

Removed(q, part, p) ==
  \E k \in 0..Len(p) : q = SubSeq(p, 1, k) \o part \o SubSeq(p, k + 1, Len(p))

Paths(c) == <<c.files, c.dists, c.mainFile>>

\* C6: once the shared directory has been stripped, a further
\* stripOriginallySharedDir() call, or a build() that reuses the dists, leaves the
\* file, dist and main-file paths as they were.
C6_StripOnce ==
  ( /\ pc = "done"
    /\ pre["this"].wasOriginallySharedDirStripped
    /\ (op.name = "stripOriginallySharedDir" \/ ReusedDists) )
  => Paths(comp["this"]) = Paths(pre["this"])

\* a second strip, by a build() that reuses the dists of an IMPORTED component whose
\* paths still hold the shared directory once more
C6_Witness ==
  /\ ReusedDists /\ op.origin = "IMPORTED"
  /\ pre["this"].wasOriginallySharedDirStripped
  /\ IsDefined(pre["this"].originallySharedDir)
  /\ \E i \in 1..Len(pre["this"].files) :
       indexOf(pre["this"].files[i].relative, Val(pre["this"].originallySharedDir) \o <<SEP>>) = 1

LacksContents == IsDefined(built) /\ \E i \in 1..Len(Val(built)) : ~Val(built)[i].contents

----------------------------------------------------------------------------
(* Claims about copyDependenciesFromModel(), checked under SpecDeps *)

InModel(id) == \E class \in ClassSet : HasId(fromModel.deps[class], id)

\* C5: copyDependenciesFromModel(ids) fails whenever some id is in no class of the model
\* snapshot, and then none of the four dependency classes of the component has changed.
C5_FailsWithoutPartialCopy ==
  (pc = "done" /\ op.name = "copyDependenciesFromModel") =>
    /\ (\E i \in 1..Len(op.ids) : ~InModel(op.ids[i])) => outcome.status = "err"
    /\ outcome.status = "err" => comp["this"].deps = pre["this"].deps

----------------------------------------------------------------------------
(* Claims about the shared directory, checked under SpecPaths *)

IsPrefix(p, q) == Len(p) <= Len(q) /\ SubSeq(q, 1, Len(p)) = p

\* every own file path and every dependency source path of the four classes
PathSet(c) ==
  { c.files[i].relative : i \in 1..Len(c.files) } \cup
  UNION { UNION { { c.deps[class][i].paths[j] : j \in 1..Len(c.deps[class][i].paths) } :
                  i \in 1..Len(c.deps[class]) } :
          class \in ClassSet }

\* the directories d such that every path of ps starts with d followed by the separator
CommonDirs(ps) ==
  { d \in UNION { { SubSeq(p, 1, k - 1) : k \in { k \in 1..Len(p) : p[k] = SEP } } : p \in ps } :
      \A p \in ps : IsPrefix(d \o <<SEP>>, p) }

\* C7: a first setOriginallySharedDir() records the longest directory that every own
\* file path and every dependency source path starts with (followed by the separator),
\* and records none when the paths have no such directory.
C7_LongestSharedDir ==
  ( /\ pc = "done" /\ op.name = "setOriginallySharedDir"
    /\ ~IsDefined(pre["this"].originallySharedDir) )
  => LET dirs == CommonDirs(PathSet(pre["this"]))
         dir == comp["this"].originallySharedDir
     IN IF dirs = {} THEN ~IsDefined(dir)
        ELSE /\ IsDefined(dir)
             /\ Val(dir) \in dirs
             /\ \A d \in dirs : Len(d) <= Len(Val(dir))

\* a shared directory two segments deep, shared with a dependency source path
C7_Witness ==
  /\ pc = "done" /\ op.name = "setOriginallySharedDir"
  /\ ~IsDefined(pre["this"].originallySharedDir)
  /\ comp["this"].originallySharedDir = Defined(<<"a", SEP, "a", "b">>)
  /\ \E class \in ClassSet : pre["this"].deps[class] # <<>>
  /\ pre["this"].files[1].relative # pre["this"].files[2].relative

----------------------------------------------------------------------------
(* Claims about runSpecs(), checked under SpecTest *)

RunSpecsDone == pc = "done" /\ op.name = "runSpecs"

\* C8: with a legacy tester there is one result per test file the tester was run on, in
\* their order; a file on which the tester threw has a failing result that carries the
\* thrown message, the other results are what the tester returned, and the run does
\* not fail because of the throw.
C8_LegacyOneResultPerFile ==
  (RunSpecsDone /\ IsDefined(tested) /\ ~comp["this"].tester.action) =>
    LET t == Val(tested)
        res == comp["this"].specsResults
    IN /\ res.set
       /\ Len(res.list) = Len(t.list)
       /\ \A i \in 1..Len(t.list) :
            /\ res.list[i].specPath = t.list[i].relative
            /\ t.outs[i] = "throw" =>
                 (~res.list[i].pass /\ res.list[i].failures = <<"thrown message">>)
            /\ t.outs[i] = "pass" => (res.list[i].pass /\ res.list[i].failures = <<>>)
            /\ t.outs[i] = "fail" =>
                 (~res.list[i].pass /\ res.list[i].failures = <<"assertion failed">>)
       /\ outcome.err # "ExternalTestError"
       /\ (~op.rejectOnFailure /\ outcome.status = "err") =>
            outcome.err \in {"SaveError", "DestroyError", "DestroyErrorInCatch"}

C8_Witness ==
  /\ RunSpecsDone /\ IsDefined(tested) /\ ~comp["this"].tester.action
  /\ Val(tested).outs = <<"throw", "pass">>
  /\ outcome = Ok("specsResults")
  /\ Len(comp["this"].specsResults.list) = 2
  /\ ~comp["this"].specsResults.list[1].pass
  /\ comp["this"].specsResults.list[2].pass

SpecsFailed == {"ComponentSpecsFailed", "ComponentSpecsFailed(report)"}

\* C9: with rejectOnFailure runSpecs() fails with ComponentSpecsFailed if and only if
\* some normalized result is not passing, with a report exactly when verbose is set;
\* without rejectOnFailure failing results do not make it fail.
C9_RejectIffNotPassing ==
  (RunSpecsDone /\ comp["this"].specsResults.set) =>
    LET list == comp["this"].specsResults.list
        failing == \E i \in 1..Len(list) : ~list[i].pass
    IN /\ op.rejectOnFailure => (outcome.err \in SpecsFailed <=> failing)
       /\ outcome.err = "ComponentSpecsFailed(report)" => op.verbose
       /\ outcome.err = "ComponentSpecsFailed" => ~op.verbose
       /\ ~op.rejectOnFailure => outcome.err \notin SpecsFailed

----------------------------------------------------------------------------
(* Claims about failures of the pluggable code *)

CompilerThrew == InLog("compiler throws")

ModernTesterThrew ==
  comp["this"].tester.action /\ IsDefined(tested) /\ Val(tested).outs = <<"throw">>

\* C11: an exception thrown by the compiler during build() reaches the caller as
\* ExternalBuildError, and an exception thrown by a modern tester during runSpecs()
\* reaches the caller as ExternalTestError; neither is swallowed or replaced.
C11_PluginErrorsReachCaller ==
  /\ (pc = "done" /\ op.name = "build" /\ CompilerThrew) => outcome = Err("ExternalBuildError")
  /\ (RunSpecsDone /\ ModernTesterThrew) => outcome = Err("ExternalTestError")

\* the compiler of the component build() was called on has both contracts, or neither
NotOneContract == pre["this"].compiler.action = pre["this"].compiler.oldAction

\* C12: a rebuild invokes the compiler only when exactly one of compiler.action and
\* compiler.oldAction is present; with neither and with both, build() fails with
\* InvalidCompilerInterface and no compiler code is invoked.
C12_ExactlyOneContract ==
  BuildDone =>
    /\ Invoked => ~NotOneContract
    /\ (RebuildCases /\ NotOneContract /\ outcome.err # "InstallError") =>
         (outcome = Err("InvalidCompilerInterface") /\ ~Invoked)

----------------------------------------------------------------------------
(* Claims about the working directory, checked under SpecPar *)

Executing(p) == par[p].pc \in {"compiling", "testing"}

\* C13: with operations on components of different roots in flight at the same time,
\* the process working directory is an operation's own root for as long as its
\* compiler or tester is executing.
C13_CwdOwnedWhileExecuting ==
  \A p \in Procs : Executing(p) => cwd = root(p)

----------------------------------------------------------------------------
(* Claims about construction and serialization, checked under SpecObj *)

\* C14: new Component(...) with an empty name or an empty mainFile is rejected with
\* GeneralError: no instance is made from an empty name or an empty mainFile.
C14_EmptyNameOrMainFileRejected ==
  last.op = "new" =>
    ((last.props.name = <<>> \/ last.props.mainFile = <<>>) <=> last.made.err = "GeneralError")

----------------------------------------------------------------------------
(* Claims about the dependency lists, checked under SpecDeps *)

\* C15: in every reachable state each of the four flattened identity lists holds every
\* identity of the corresponding direct dependency list.
C15_FlattenedHoldDirect ==
  \A class \in ClassSet :
    \A i \in 1..Len(comp["this"].deps[class]) :
      \E j \in 1..Len(comp["this"].flattened[class]) :
        comp["this"].flattened[class][j] = comp["this"].deps[class][i].id

\* C16: fromObject(toObject(c)) makes a component whose name, scope, version, files,
\* dists, four dependency sets, five package-dependency maps, license and deprecated
\* flag are equal to c's.
C16_RoundTripKeepsObservableFields ==
  last.op = "fromObject(toObject)" =>
    /\ last.made.err = "none"
    /\ last.made.c.name = last.c.name
    /\ last.made.c.scope = last.c.scope
    /\ last.made.c.version = last.c.version
    /\ last.made.c.files = last.c.files
    /\ last.made.c.dists = last.c.dists
    /\ last.made.c.deps = last.c.deps
    /\ last.made.c.packages = last.c.packages
    /\ last.made.c.license = last.c.license
    /\ last.made.c.deprecated = last.c.deprecated

\* C17: fromObject(toObject(c)) reproduces every field of the document's stable field
\* set but the derived docs; in particular the creation log, the test results and the
\* detachedCompiler / detachedTester flags are equal to c's.
C17_RoundTripKeepsStableFields ==
  last.op = "fromObject(toObject)" =>
    /\ last.made.err = "none"
    /\ \A field \in { "name", "version", "scope", "lang", "bindingPrefix", "mainFile",
                      "compiler", "tester", "detachedCompiler", "detachedTester", "deps",
                      "packages", "files", "dists", "specsResults", "license", "log",
                      "deprecated" } :
         last.made.c[field] = last.c[field]

\* C18: fromString on a document whose dists field is a bare array L and on the same
\* document with dists as the object {dists: L} make components with equal dist lists.
C18_ArrayAndObjectDistsAgree ==
  last.op = "fromString" =>
    /\ last.array.err = "none"
    /\ last.object.err = "none"
    /\ last.array.c.dists = last.object.c.dists
    /\ last.array.c.dists = Dists(Array(loadFromParsedStringArray(last.L)))

C18_Witness ==
  /\ last.op = "fromString"
  /\ last.L # <<>>
  /\ last.array.c.dists.list = last.L

\* how many entries the classes ahead of the k-th class hold
RECURSIVE Ahead(_, _)
Ahead(lists, k) ==
  IF k = 1 THEN 0 ELSE Ahead(lists, k - 1) + Len(lists[Classes[k - 1]])

InClassOrder(all, lists) ==
  /\ Len(all) = Ahead(lists, Len(Classes)) + Len(lists[Classes[Len(Classes)]])
  /\ \A k \in 1..Len(Classes) :
       \A i \in 1..Len(lists[Classes[k]]) :
         all[Ahead(lists, k) + i] = lists[Classes[k]][i]

\* C19: getAllDependencies() returns the runtime records, then the dev records, then
\* the compiler records, then the tester records, each class in its stored order,
\* whatever order the classes were populated in; getAllFlattenedDependencies() puts
\* the four flattened lists one after the other in the same class order.
C19_FixedClassOrder ==
  last.op = "getAllDependencies" =>
    /\ InClassOrder(last.all, last.c.deps)
    /\ InClassOrder(last.flattened, last.c.flattened)

\* the tester class was populated ahead of the runtime class, and both lists are read
C19_Witness ==
  /\ last.op = "getAllDependencies"
  /\ pc = "done"
  /\ last.c = comp["this"]
  /\ op.ids = <<"d2", "d1">>
  /\ Len(pre["this"].deps["dependencies"]) = 1
  /\ Len(pre["this"].deps["testerDependencies"]) = 1
  /\ Len(comp["this"].deps["dependencies"]) = 2
  /\ comp["this"].deps["dependencies"][2].id = "d1"
  /\ Len(comp["this"].deps["testerDependencies"]) = 2
  /\ comp["this"].deps["testerDependencies"][2].id = "d2"
  /\ last.flattened = <<"d3", "d4">>
  /\ Len(last.all) = 4
  /\ last.all[2].id = "d1"
  /\ last.all[4].id = "d2"

\* the last step was a mutation through one of the two instances of a clone() pair
MutatedAfterClone ==
  /\ last.op \in {"add", "rewrite"}
  /\ Len(heap.instances) = 2
  /\ Len(last.before) = 2

WithDependenciesDone == pc = "done" /\ op.name = "toComponentWithDependencies"

TookFallback == \E i \in 1..Len(log) : log[i].call = "scope.loadComponent"

\* C21: toComponentWithDependencies loads each flattened identity from the workspace
\* exactly when the index has that identity with the same version, and from the store
\* otherwise; afterwards dependenciesSavedAsComponents is false if and only if it was
\* false already or some identity took the store fallback; no call sets it back to true.
C21_FallbackClearsFlagForGood ==
  WithDependenciesDone =>
    /\ \A i \in 1..Len(log) :
         (log[i].call = "consumer.loadComponent") <=>
           ([name |-> log[i].id, version |-> "0.0.1"] \in ws.index)
    /\ \A i \in 1..Len(log) : log[i].call \in {"consumer.loadComponent", "scope.loadComponent"}
    /\ outcome.status = "ok" =>
         [i \in 1..Len(log) |-> log[i].id] =
           (IF pre["this"].loadedFromFileSystem THEN getAllFlattenedDependencies([flattened |-> modelFlattened])
            ELSE getAllFlattenedDependencies(pre["this"]))
    /\ (~comp["this"].dependenciesSavedAsComponents) <=>
         (~pre["this"].dependenciesSavedAsComponents \/ TookFallback)

\* a second call finds every identity in the index and the flag stays false
C21_Witness ==
  /\ WithDependenciesDone
  /\ calls = 2
  /\ outcome.status = "ok"
  /\ Len(log) = 2
  /\ ~TookFallback
  /\ ~pre["this"].dependenciesSavedAsComponents
  /\ ~comp["this"].dependenciesSavedAsComponents

\* runSpecs() is in flight or has settled on a component that had no tester, or no
\* source file flagged as a test, when it was called
NothingToTest ==
  /\ op.name = "runSpecs"
  /\ ~pre["this"].tester.present \/ SelectTest(pre["this"].files) = <<>>

\* C22: runSpecs() on a component with no tester, or with no source file flagged as a
\* test, returns null and does nothing else: no tester is installed, no build is
\* triggered, no isolated environment is created, the working directory and
\* specsResults stay as they were.
C22_NothingToTestReturnsNull ==
  NothingToTest =>
    /\ pc \in {"runSpecs", "done"}
    /\ pc = "done" => outcome = Ok("null")
    /\ log = <<>>
    /\ env = NoEnv
    /\ cwd = "start"
    /\ built = Undefined
    /\ tested = Undefined
    /\ comp = pre

\* a component with a tester that is not loaded and no test file
C22_Witness ==
  /\ NothingToTest
  /\ pc = "done"
  /\ pre["this"].tester.present
  /\ ~pre["this"].tester.loaded
  /\ pre["this"].files # <<>>
  /\ outcome = Ok("null")

\* C23: when save is requested, runSpecs() persists results to the model store only
\* when they are passing: modifySpecsResults is never called with a result list that
\* holds a non-passing result, with or without rejectOnFailure.
C23_OnlyPassingResultsSaved ==
  (op.name = "runSpecs" /\ InLog("scope.sources.modifySpecsResults")) =>
    /\ op.save
    /\ comp["this"].specsResults.set
    /\ \A i \in 1..Len(comp["this"].specsResults.list) : comp["this"].specsResults.list[i].pass

\* loadFromFileSystem has settled
LoadDone == pc = "done" /\ op.name = "loadFromFileSystem"

\* the tracked files the call did not find on disk, and those it did
MissingFiles == SelectSeq(last.record.files, LAMBDA f : f.relativePath \notin last.disk)
FoundFiles == SelectSeq(last.record.files, LAMBDA f : f.relativePath \in last.disk)
MainIsMissing == \E i \in 1..Len(MissingFiles) : MissingFiles[i].relativePath = last.record.mainFile

\* C24: loadFromFileSystem fails with ComponentNotFoundInPath when the component
\* directory does not exist; when some tracked files are missing from disk but not
\* the main file, they are removed from the index record and the load succeeds with
\* the remaining files; when the missing files include the main file it fails with
\* MainFileRemoved and no file is pruned; when no tracked file is on disk it fails
\* with MissingFilesFromComponent.
C24_MissingFilesHandled ==
  LoadDone =>
    /\ ~last.dirExists =>
         outcome = Err("ComponentNotFoundInPath") /\ ws.record = last.record
    /\ (last.dirExists /\ FoundFiles = <<>>) =>
         outcome = Err("MissingFilesFromComponent") /\ ws.record = last.record
    /\ (last.dirExists /\ FoundFiles # <<>> /\ MainIsMissing) =>
         outcome = Err("MainFileRemoved") /\ ws.record = last.record
    /\ (last.dirExists /\ FoundFiles # <<>> /\ ~MainIsMissing) =>
         /\ outcome = Ok("component")
         /\ ws.record = [last.record EXCEPT !.files = FoundFiles]
         /\ comp["this"].files =
              [i \in 1..Len(FoundFiles) |-> File(FoundFiles[i].relativePath, FoundFiles[i].test)]
         /\ comp["this"].mainFile = last.record.mainFile

\* a file other than the main file was gone: the record was pruned and the load succeeded
C24_Witness ==
  /\ LoadDone
  /\ last.dirExists
  /\ Len(MissingFiles) = 1
  /\ Len(FoundFiles) = 2
  /\ ~MainIsMissing
  /\ outcome = Ok("component")
  /\ Len(ws.record.files) = 2
  /\ ws.hasChanged

\* writeConfig / injectConfig has settled on a component the index has a record of
WriteConfigDone == pc = "done" /\ op.name = "writeConfig" /\ last.tracked
InjectConfigDone == pc = "done" /\ op.name = "injectConfig" /\ last.tracked

\* the record is bound to the workspace: AUTHORED with neither environment detached,
\* or both detached flags exactly false
BoundToWorkspace(record) ==
  \/ /\ record.origin = "AUTHORED"
     /\ record.detachedCompiler \in {Undefined, Defined(FALSE)}
     /\ record.detachedTester \in {Undefined, Defined(FALSE)}
  \/ /\ record.detachedCompiler = Defined(FALSE)
     /\ record.detachedTester = Defined(FALSE)

ConfigFailures == {"EjectToWorkspace", "EjectBoundToWorkspace", "InjectNonEjected"}

\* C25: writeConfig with configDir '.' or './' fails with EjectToWorkspace; writeConfig
\* with another configDir on a record bound to the workspace fails with
\* EjectBoundToWorkspace; injectConfig on a record that has no configDir fails with
\* InjectNonEjected; in each of these failures the eject / inject action is not run and
\* the record's configDir is unchanged.
C25_NamedConfigFailures ==
  /\ WriteConfigDone =>
       /\ last.configDir \in {".", "./"} <=> outcome.err = "EjectToWorkspace"
       /\ (last.configDir \notin {".", "./"} /\ BoundToWorkspace(last.record)) <=>
            outcome.err = "EjectBoundToWorkspace"
  /\ InjectConfigDone =>
       (~IsDefined(last.record.configDir) <=> outcome.err = "InjectNonEjected")
  /\ (pc = "done" /\ outcome.err \in ConfigFailures) =>
       /\ log = <<>>
       /\ ws.record = last.record

\* an IMPORTED record with both flags false is refused, the ejected directory of an
\* earlier writeConfig still in place
C25_Witness ==
  /\ WriteConfigDone
  /\ last.record.origin = "IMPORTED"
  /\ last.configDir = "conf"
  /\ last.record.configDir = Defined("conf")
  /\ outcome = Err("EjectBoundToWorkspace")
  /\ ws.record.configDir = Defined("conf")

\* C26: once setOriginallySharedDir() has run on a component, a later call never
\* changes originallySharedDir, also when the first call found no shared directory and
\* the files or dependency paths were changed in between.
C26_LaterCallKeepsSharedDir ==
  (pc = "done" /\ op.name = "setOriginallySharedDir" /\ calls >= 2) =>
    comp["this"].originallySharedDir = pre["this"].originallySharedDir

\* p without its leading dir and separator, or p itself when it does not start so
WithoutLeading(p, dir) ==
  IF IsPrefix(dir \o <<SEP>>, p) THEN SubSeq(p, Len(dir) + 2, Len(p)) ELSE p

\* a first stripOriginallySharedDir() has settled and a shared directory was found
FirstStripFound ==
  /\ pc = "done"
  /\ op.name = "stripOriginallySharedDir"
  /\ ~pre["this"].wasOriginallySharedDirStripped
  /\ IsDefined(comp["this"].originallySharedDir)

\* C27: when a shared directory d was found, the first stripOriginallySharedDir()
\* rewrites every own file path, every dist path, the main-file path, every dependency
\* source path and every custom-resolved destination path p to p without its leading
\* 'd/'; a path that does not start with 'd/' is left unchanged.
C27_OnlyLeadingSharedDirRemoved ==
  FirstStripFound =>
    LET d == Val(comp["this"].originallySharedDir)
        old == pre["this"]
        new == comp["this"]
    IN /\ new.files = [i \in 1..Len(old.files) |->
                        [old.files[i] EXCEPT !.relative = WithoutLeading(@, d)]]
       /\ new.dists = [i \in 1..Len(old.dists) |->
                        [old.dists[i] EXCEPT !.relative = WithoutLeading(@, d)]]
       /\ new.mainFile = WithoutLeading(old.mainFile, d)
       /\ \A class \in ClassSet :
            new.deps[class] =
              [i \in 1..Len(old.deps[class]) |->
                [old.deps[class][i] EXCEPT
                   !.paths = [j \in 1..Len(@) |-> WithoutLeading(@[j], d)]]]
       /\ new.customResolvedPaths =
            [i \in 1..Len(old.customResolvedPaths) |-> WithoutLeading(old.customResolvedPaths[i], d)]

BuildWithoutCompilerDone == pc = "done" /\ op.name = "build" /\ ~pre["this"].compiler.present

\* C29: build() on a component without a compiler never installs or invokes a compiler
\* and never creates an isolated environment; with no workspace, or a workspace that
\* keeps dists inside the component, it returns null and leaves the dists unchanged;
\* otherwise it replaces the dists with one dist per source file, at the file's path and
\* in the files' order, and returns them.
C29_NoCompilerCopiesOrSkips ==
  BuildWithoutCompilerDone =>
    /\ log = <<>>
    /\ env = NoEnv
    /\ comp["this"].compiler = pre["this"].compiler
    /\ comp["this"].files = pre["this"].files
    /\ IF ~op.consumer \/ op.distsInside
         THEN /\ outcome = Ok("null")
              /\ comp["this"].dists = pre["this"].dists
         ELSE /\ outcome = Ok("dists")
              /\ Len(comp["this"].dists) = Len(pre["this"].files)
              /\ \A i \in 1..Len(pre["this"].files) :
                   comp["this"].dists[i].relative = pre["this"].files[i].relative

\* dists kept outside the component and other dists already there: they are replaced
C29_Witness ==
  /\ BuildWithoutCompilerDone
  /\ op.consumer /\ ~op.distsInside
  /\ pre["this"].dists # <<>>
  /\ \E i \in 1..Len(pre["this"].dists) :
       pre["this"].dists[i].relative # pre["this"].files[i].relative
  /\ outcome = Ok("dists")
  /\ comp["this"].dists # pre["this"].dists

\* the calls of a plugin's action or oldAction in the log
CallsOf(kind) == {i \in 1..Len(log) : log[i] \in {kind \o ".action", kind \o ".oldAction"}}

\* the plugin's install() was called before the log's entry i
InstalledBefore(kind, i) == \E j \in 1..(i - 1) : log[j] = kind \o ".install"

\* the component build() works on: the isolated copy once there is one
Building == IF tgt = "iso" /\ comp["iso"] = NoComponent THEN comp["this"] ELSE comp[tgt]

\* C30: a compiler or a tester is never invoked while it is not loaded: when the
\* operation started with the plugin not loaded, every call of its action or oldAction
\* comes after its install(), and after an install() that failed (the plugin is still
\* not loaded) the plugin is not called at all.
C30_InstalledBeforeInvoked ==
  /\ CallsOf("compiler") # {} =>
       /\ Building.compiler.loaded
       /\ ~pre["this"].compiler.loaded =>
            \A i \in CallsOf("compiler") : InstalledBefore("compiler", i)
  /\ (InLog("compiler.install") /\ ~Building.compiler.loaded) => CallsOf("compiler") = {}
  /\ CallsOf("tester") # {} =>
       /\ comp["this"].tester.loaded
       /\ ~pre["this"].tester.loaded =>
            \A i \in CallsOf("tester") : InstalledBefore("tester", i)
  /\ (InLog("tester.install") /\ ~comp["this"].tester.loaded) => CallsOf("tester") = {}

\* runSpecs() of a component whose compiler and tester both had to be installed, and
\* both were invoked
C30_Witness ==
  /\ pc = "done" /\ op.name = "runSpecs"
  /\ ~pre["this"].compiler.loaded /\ ~pre["this"].tester.loaded
  /\ InLog("compiler.install") /\ InLog("tester.install")
  /\ CallsOf("compiler") # {} /\ CallsOf("tester") # {}

\* runSpecs() in workspace mode: a workspace is given and isolation is not asked for
WorkspaceRun == op.name = "runSpecs" /\ op.consumer /\ ~op.isolated

\* the failures build() and the dist-write can end with
BuildFailures ==
  {"InstallError", "InvalidCompilerInterface", "ExternalBuildError", "GeneralError"}

\* run() was reached: the tester was handed its list of files
TesterReached == pc = "r_run" \/ IsDefined(tested)

\* C31: in workspace mode the tester is reached only after build() has completed and
\* the dists were written, in that order; when the build or the dist-write fails the
\* tester is not reached and the failure is what the caller gets.
C31_BuildThenWriteThenTest ==
  WorkspaceRun =>
    /\ TesterReached =>
         \E j \in 1..Len(log) :
           /\ log[j] = "dists.writeDists"
           /\ \A k \in CallsOf("compiler") : k < j
           /\ \A i \in CallsOf("tester") : j < i
    /\ (pc = "done" /\ outcome.err \in BuildFailures \cup {"WriteDistsError"}) =>
         (~IsDefined(tested) /\ CallsOf("tester") = {})
    /\ (pc = "done" /\ ~IsDefined(tested) /\ outcome # Ok("null")) =>
         /\ outcome.status = "err"
         /\ outcome.err \in BuildFailures \cup {"WriteDistsError"}
         /\ outcome.err = "WriteDistsError" <=> InLog("dists.writeDists")

\* the compiler ran, the dists were written, the tester was called
C31_Witness ==
  /\ WorkspaceRun /\ pc = "done"
  /\ CallsOf("compiler") # {} /\ InLog("dists.writeDists") /\ CallsOf("tester") # {}
  /\ outcome = Ok("specsResults")

\* the log's entry i is preceded by a change of the working directory
ChdirBefore(i) == \E j \in 1..(i - 1) : log[j] = "process.chdir"

\* C32: every call of a compiler by build() and of a tester by runSpecs(), in workspace
\* mode and in isolation mode, is preceded within the same operation by a change of the
\* process working directory to the operation's root.
C32_ChdirBeforeEveryPluginCall ==
  /\ \A i \in CallsOf("compiler") \cup CallsOf("tester") : ChdirBefore(i)
  /\ (pc = "done" /\ CallsOf("compiler") \cup CallsOf("tester") # {}) =>
       cwd \in {"workspace", "isolated"}

----------------------------------------------------------------------------
(* Claims about write(), checked under SpecWrite *)

\* a write() with a workspace has done its synchronous part
WriteStarted == op.name = "write" /\ pc # "idle" /\ last.a.consumer

\* the calls write() made on the index, in their order
IndexCalls == SelectSeq(log, LAMBDA e : e \in {"bitMap.removeComponent", "bitMap.addComponent"})

\* when write() was called the index had the component with the same version
SameVersionBefore == last.ws0.tracked /\ last.ws0.record.version = idVersion("this")

\* the record's shared directory was not the component's
DirDiffers == last.ws0.record.originallySharedDir # pre["this"].originallySharedDir

\* the call imports a component the index had as a dependency
NestedToImported ==
  last.ws0.tracked /\ last.a.origin = "IMPORTED" /\ last.ws0.record.origin = "NESTED"

\* C33 as stated: when the index already has the component with the same version,
\* write() removes the record and then adds a new one if the record's shared directory
\* differs from the component's, and neither removes nor adds if it is equal.
C33_ReplacedIffDirDiffers ==
  (WriteStarted /\ SameVersionBefore /\ outcome.err # "RemoveError") =>
    IndexCalls = IF DirDiffers THEN <<"bitMap.removeComponent", "bitMap.addComponent">>
                 ELSE <<>>

\* C33 amended: when the index already has the component with the same version,
\* write() removes the record and then adds a new one, once, if the record's shared
\* directory differs from the component's or the call imports a component the index had
\* as NESTED; otherwise it neither removes nor adds. When deleting the old directory of
\* the NESTED component fails, the index is left as it was.
C33_ReplacedWhenDirOrOriginChanges ==
  (WriteStarted /\ SameVersionBefore) =>
    IF outcome.err = "RemoveError"
      THEN IndexCalls = <<>> /\ ws = last.ws0
      ELSE IF DirDiffers \/ NestedToImported
        THEN /\ IndexCalls = <<"bitMap.removeComponent", "bitMap.addComponent">>
             /\ ws.tracked
             /\ ws.record.originallySharedDir = comp["this"].originallySharedDir
             /\ ws.record.origin = last.a.origin
        ELSE /\ IndexCalls = <<>>
             /\ ws.tracked
             /\ ws.record.originallySharedDir = last.ws0.record.originallySharedDir
             /\ ws.record.origin = last.ws0.record.origin

\* a record with another shared directory, replaced by a write() that keeps its origin
C33_Witness ==
  /\ WriteStarted /\ SameVersionBefore /\ pc = "done"
  /\ DirDiffers /\ ~NestedToImported
  /\ IndexCalls = <<"bitMap.removeComponent", "bitMap.addComponent">>
  /\ outcome = Ok("this")

\* the position of the first entry of the log that is in the set, 0 when there is none
FirstOf(set) ==
  IF \E i \in 1..Len(log) : log[i] \in set
    THEN CHOOSE i \in 1..Len(log) : log[i] \in set /\ \A j \in 1..(i - 1) : log[j] \notin set
    ELSE 0

\* what _writeToComponentDir does on disk
DiskCalls ==
  {"fs.emptyDirSync", "mkdirp", "file.write", "dists.writeDists", "ejectConf",
   "writePackageJson", "license.write"}

Added == Len(SelectSeq(log, LAMBDA e : e = "bitMap.addComponent"))

\* C36: write() with a workspace never leaves the component absent from the index:
\* every removeComponent it performs is followed, in the same call and before any file
\* is written, by an addComponent, and one call adds at most one record.
C36_RemovedThenAddedOnce ==
  WriteStarted =>
    /\ ws.tracked
    /\ Added <= 1
    /\ \A i \in 1..Len(log) :
         log[i] = "bitMap.removeComponent" =>
           /\ i < Len(log)
           /\ log[i + 1] = "bitMap.addComponent"
    /\ \A i \in 1..Len(log) :
         log[i] \in DiskCalls =>
           \A j \in 1..Len(log) :
             log[j] \in {"bitMap.removeComponent", "bitMap.addComponent"} => j < i

\* the record was replaced, then writing the files failed half way
C36_Witness ==
  /\ WriteStarted /\ pc = "done"
  /\ InLog("bitMap.removeComponent")
  /\ outcome = Err("FileWriteError")
  /\ ws.tracked
  /\ ws.disk # last.ws0.disk

----------------------------------------------------------------------------
(* Claims about copyDependenciesFromModel(), checked under SpecDeps *)

\* the classes of the model snapshot that hold the id, by their place in the class order
HoldersOf(id) == {k \in 1..Len(Classes) : \E i \in 1..Len(fromModel.deps[Classes[k]]) :
                                            fromModel.deps[Classes[k]][i].id = id}

\* the ids of the call whose first holder is the class at place k, in the call's order
FirstHeldBy(k) ==
  SelectSeq(op.ids, LAMBDA id : k \in HoldersOf(id) /\ \A j \in HoldersOf(id) : k <= j)

CopyDone == pc = "done" /\ op.name = "copyDependenciesFromModel" /\ outcome.status = "ok"

\* C35: copyDependenciesFromModel copies, for each id, only the record of the first
\* class (runtime, dev, compiler, tester) of the model snapshot that holds the id, into
\* the same class of the component; the other classes get nothing for that id, also
\* when later classes of the snapshot hold it too.
C35_FirstMatchOnly ==
  CopyDone =>
    \A k \in 1..Len(Classes) :
      comp["this"].deps[Classes[k]] =
        pre["this"].deps[Classes[k]]
          \o [i \in 1..Len(FirstHeldBy(k)) |-> ModelDependency(FirstHeldBy(k)[i], k)]

\* an id held by the runtime class and by a later class of the snapshot
C35_Witness ==
  /\ CopyDone
  /\ op.ids = <<"d1">>
  /\ HoldersOf("d1") = {1, 2, 4}
  /\ Len(comp["this"].deps["dependencies"]) = Len(pre["this"].deps["dependencies"]) + 1
  /\ comp["this"].deps["devDependencies"] = pre["this"].deps["devDependencies"]
  /\ comp["this"].deps["testerDependencies"] = pre["this"].deps["testerDependencies"]

----------------------------------------------------------------------------
(* Claims about the files the tester is run on, checked under SpecTest *)

\* C37: once runSpecs() is past its short circuit (a tester, and a source file flagged
\* as a test), the tester is run on a non-empty list of test files; a run that succeeds
\* under rejectOnFailure has executed at least one test file, also when the component
\* has dists none of which is flagged as a test.
C37_TesterRunsOnSomeFile ==
  (op.name = "runSpecs" /\ IsDefined(tested)) =>
    /\ Val(tested).list # <<>>
    /\ (pc = "done" /\ op.rejectOnFailure /\ outcome.status = "ok") =>
         comp["this"].specsResults.list # <<>>

----------------------------------------------------------------------------
(* Claims about the isolated environment and the working directory *)

\* C38: for each isolated environment created by build() or runSpecs(), destroy() is
\* invoked at most once during the operation, on every exit path, including the one
\* where the destroy performed after a successful run itself fails.
C38_DestroyedAtMostOnce ==
  env.destroyCalls <= 1

\* the directory the operation changes to: the workspace, or the path the component
\* was written to in the isolated environment
OperationRoot ==
  IF op.consumer /\ (op.name = "build" \/ ~op.isolated) THEN "workspace" ELSE "isolated"

\* C39: build() and runSpecs() never restore the process working directory: once an
\* operation has changed it, it stays the operation's root (the workspace path or the
\* component's written path) until and after the operation returns or fails, also when
\* that path lies in an isolated environment that has been destroyed; an operation
\* that did not change it leaves it as it was.
C39_WorkingDirectoryNotRestored ==
  /\ InLog("process.chdir") => cwd = OperationRoot
  /\ (calls = 1 /\ pc # "idle" /\ ~InLog("process.chdir")) => cwd = "start"

\* the compiler ran in an isolated environment that was then destroyed
C39_Witness ==
  /\ pc = "done" /\ op.name = "build"
  /\ CallsOf("compiler") # {}
  /\ env.destroyCalls = 1 /\ ~env.destroyFailed
  /\ outcome.status = "ok"
  /\ cwd = "isolated"

----------------------------------------------------------------------------
(* Claims about execAction() *)

\* execAction under the scheduling of the event loop: a step that can be taken is taken
SpecCliFair == SpecCli /\ WF_vars(NextCli)

CliStarted == op.name = "execAction"

LogIndexes(entry) == { i \in DOMAIN log : log[i] = entry }

CliFailed == LogIndexes("logger.error") # {}

MigrationFailed ==
  \E i \in LogIndexes("migrate") : i < Len(log) /\ log[i + 1] = "logger.error"

CliExitedOnce == CliStarted /\ Len(last.exits) = 1

CliRethrown == CliStarted /\ outcome = Err("unhandled rejection")

\* at most one exit, after loader.off, with the code the outcome calls for
CliExitsWell ==
  /\ Len(last.exits) <= 1
  /\ Cardinality(LogIndexes("logger.exitAfterFlush")) = Len(last.exits)
  /\ \A i \in LogIndexes("logger.exitAfterFlush") :
       \E j \in LogIndexes("loader.off") : j < i
  /\ Len(last.exits) = 1 =>
       IF ~CliFailed THEN last.exits[1] = 0
       ELSE /\ last.exits[1] # 0
            /\ last.exits[1] = IF last.command.private THEN exitCodeOf(last.err) ELSE 1

\* the action starts after the migration, and not at all when the migration failed
CliActionInOrder ==
  /\ \A i \in LogIndexes("command.action") :
       last.command.migration => \E j \in LogIndexes("migrate") : j < i
  /\ MigrationFailed => LogIndexes("command.action") = {}

\* C40: every execution of a command by execAction eventually calls
\* logger.exitAfterFlush, exactly once and after loader.off, with code 0 when the
\* migration, the action and the report succeed and a non-zero code otherwise (for a
\* private command the error's numeric code, else 1); the action never starts before
\* the migration has completed, nor when the migration fails.
C40_EventuallyExitsOnce ==
  /\ [](CliStarted => <>CliExitedOnce)
  /\ [](CliStarted => CliExitsWell /\ CliActionInOrder)

\* parts of C40, one at a time
C40_SafetyPart == CliStarted => CliExitsWell /\ CliActionInOrder
C40_ExitsUnlessRethrown ==
  [](CliStarted => <>(CliExitedOnce \/ CliRethrown))

====
